---- MODULE Spec2Model ----
(***************************************************************************)
(* The event-propagation core of the logistics platform: the order        *)
(* service's publisher, the topic exchange and its three queues, the      *)
(* inventory, tracking and notification consumers and the handlers they   *)
(* dispatch to, with the inventory service's reserve / release            *)
(* operations.                                                             *)
(***************************************************************************)
EXTENDS Integers, Sequences, FiniteSets, TLC

\* ------------------------------------------------------------------ bounds
MaxQty == 2    \* largest quantity one order line asks for
MaxCalls == 2  \* calls of the inventory service, or handler invocations, in one run
MaxRequests == 2   \* requests the order API serves in one run
MaxForeign == 1    \* messages other clients of the broker publish in one run
MaxInvocations == 3 \* direct invocations of the tracking handler in one run
MaxKeyLen == 3  \* characters of a routing key or a pattern
MaxBacklog == 12 \* messages routed to one consumer's queue in one run
MaxDeliveries == 3 \* deliveries the inventory consumer handles in one run
MaxCallers == 2 \* callers of get_event_publisher in one run
MaxProxied == 1 \* requests the gateway proxies in one run
MaxLedgerCalls == 3 \* reserve, release and adjust calls in one run of the stock ledger

\* --------------------------------------------------------------- constants
None == "None"
NoRow == 0                        \* .first() found no row
NoSku == ""                       \* an order line without a SKU (sku is Optional)
NoOrder == 0                      \* a payload without order_number
Callers == 1..MaxCallers          \* the coroutines that call get_event_publisher
Seconds == {1, 2}                 \* the clock seconds of a run
\* ORD-yyyyMMddHHmmss: an order number is the second it was generated in
generate_order_number(second) == second
Orders == {generate_order_number(t) : t \in Seconds}
Skus == {"A", "B"}
Recs == {1, 2, 3}                 \* rows of inventory_items
\* (warehouse_id, sku) is unique: SKU A is stocked in two warehouses, B in one
RecSku == [r \in Recs |-> IF r = 3 THEN "B" ELSE "A"]
RecWarehouse == [r \in Recs |-> IF r = 2 THEN "WH-2" ELSE "WH-1"]
InitialStock == [r \in Recs |-> IF r = 1 THEN 2 ELSE 1]

Quantities == 1..MaxQty
Lines == [sku : Skus, quantity : Quantities] \cup {[sku |-> NoSku, quantity |-> 1]}
ItemLists == {<<l>> : l \in Lines} \cup {<<l, m>> : l \in Lines, m \in Lines}
\* the orders placed through the order API
OrderItemLists == {<<[sku |-> "A", quantity |-> 2]>>,
                   <<[sku |-> "A", quantity |-> 1], [sku |-> "B", quantity |-> 2]>>}

Statuses == {"cancelled", "shipped"}
\* order.status_changed / order.cancelled payloads; new_status may be absent or empty
CancelPayloads == [order_number : Orders \cup {NoOrder},
                   new_status : Statuses \cup {None, ""}]
\* order.created payloads, with those the handler rejects
CreatedPayloads ==
    [order_number : Orders, items : ItemLists]
        \cup {[order_number |-> NoOrder, items |-> <<[sku |-> "A", quantity |-> 1]>>]}
        \cup [order_number : Orders, items : {<<>>}]

VARIABLES
    inv,      \* inventory_items: row -> [quantity, reserved_quantity]
    txns,     \* inventory_transactions, in insertion order
    last,     \* the latest call of the inventory service or of a handler:
              \* arguments, state before, return
    calls,    \* calls made so far
    now,      \* the clock, in seconds
    orders,   \* orders table: order_number -> [status, items, response]
    opub,     \* the order service's event_publisher
    queue,    \* the broker's queues: consumer -> messages ready for delivery
    nmsg,     \* messages the exchange has accepted
    sent,     \* the events the exchange has accepted, each with the "reserve" rows
              \* its order had at that moment
    shipments,\* shipments table
    tasks,    \* tracking handler invocations suspended at an await, message unacknowledged
    tpub,     \* the tracking service's event_publisher
    notifs,   \* notifications table, in insertion order
    settled,  \* deliveries the consumers have finished: what happened, what the broker was told
    reqs,     \* requests the order API and the tracking API have served
    foreign,  \* messages other clients have published
    pub,      \* one publisher object: its class, connection, channel, exchange,
              \* and where a running connect() is
    con,      \* one MessageConsumer object: its handlers and log, its connection,
              \* and the broker's count of its queue's messages
    events,   \* tracking_events table
    snd,      \* the running send_notification call: where it is, and the row it holds
    run,      \* one call of a consumer start routine: which routine, where it is, its
              \* running flag, the parity of its sleeps
    gw,       \* the gateway's proxy_request calls: where the running one is, what each attempt met
    gp        \* the module global event_publisher and the callers of get_event_publisher

invVars == <<inv, txns, last, calls>>
orderVars == <<orders, opub, reqs>>
brokerVars == <<queue, nmsg, sent, settled, foreign>>
trackingVars == <<shipments, tasks, tpub>>
objVars == <<pub, con>>
procVars == <<run, gw, gp>>
sysVars == <<now, orders, opub, reqs, queue, nmsg, sent, settled, foreign,
             shipments, tasks, tpub, notifs, pub, con, events, snd, run, gw, gp>>
vars == <<inv, txns, last, calls, now, orders, opub, reqs, queue, nmsg, sent, settled,
          foreign, shipments, tasks, tpub, notifs, pub, con, events, snd, run, gw, gp>>

\* ------------------------------------------------------- inventory service
AutoFlush == FALSE

available_quantity(row) == row.quantity - row.reserved_quantity

\* a query without the availability filter
SufficientRowsNoFilter(view, sku, quantity) == {r \in Recs : RecSku[r] = sku}

\* the rows the reservation query of one order line selects from
SufficientRows(view, sku, quantity) ==
    {r \in Recs : RecSku[r] = sku /\ available_quantity(view[r]) >= quantity}

RECURSIVE MemAfterByOne(_, _, _, _)
\* a reservation that counts one unit per line
MemAfterByOne(db, items, pick, k) ==
    IF k = 0 THEN db
    ELSE LET m == MemAfterByOne(db, items, pick, k - 1)
         IN  IF pick[k] = NoRow THEN m
             ELSE [m EXCEPT ![pick[k]].reserved_quantity = @ + 1]

RECURSIVE MemAfter(_, _, _, _)
\* the session's rows after the first k lines, pick[i] being the row line i reserved on
MemAfter(db, items, pick, k) ==
    IF k = 0 THEN db
    ELSE LET m == MemAfter(db, items, pick, k - 1)
         IN  IF pick[k] = NoRow THEN m
             ELSE [m EXCEPT ![pick[k]].reserved_quantity = @ + items[k].quantity]

\* what the query of line k sees: the database, without the session's pending
\* changes unless the session flushes before a query
QueryView(db, items, pick, k) ==
    IF AutoFlush THEN MemAfter(db, items, pick, k - 1) ELSE db

\* pick is a possible outcome of the queries' .first(): no ORDER BY, any matching row
FirstRows(db, items, pick) ==
    \A k \in 1..Len(items) :
        LET rows == SufficientRows(QueryView(db, items, pick, k),
                                   items[k].sku, items[k].quantity)
        IN  IF items[k].sku = NoSku \/ rows = {}
            THEN pick[k] = NoRow
            ELSE pick[k] \in rows

RECURSIVE ReserveTxns(_, _, _, _)
ReserveTxns(order, items, pick, k) ==
    IF k = 0 THEN <<>>
    ELSE LET t == ReserveTxns(order, items, pick, k - 1)
         IN  IF pick[k] = NoRow THEN t
             ELSE Append(t, [item |-> pick[k], type |-> "reserve",
                             quantity |-> items[k].quantity, order |-> order])

reserve_inventory(db, tx, order, items, pick) ==
    [inv  |-> MemAfter(db, items, pick, Len(items)),
     txns |-> tx \o ReserveTxns(order, items, pick, Len(items)),
     ret  |-> TRUE]

\* a query that forgets the order_number filter
ReservationsOfAnyOrder(tx, order) == SelectSeq(tx, LAMBDA t : t.type = "reserve")

\* the "reserve" rows of an order, in row order
Reservations(tx, order) ==
    SelectSeq(tx, LAMBDA t : t.order = order /\ t.type = "reserve")

RECURSIVE ReleaseRows(_, _, _)
ReleaseRows(db, res, k) ==
    IF k = 0 THEN db
    ELSE [ReleaseRows(db, res, k - 1)
            EXCEPT ![res[k].item].reserved_quantity = @ - res[k].quantity]

\* an audit trail that books one unit per released reservation
ReleaseTxnsUnit(res) ==
    [k \in 1..Len(res) |-> [item |-> res[k].item, type |-> "release",
                            quantity |-> 1, order |-> res[k].order]]

\* one "release" row per "reserve" row of the order, with its item and quantity
ReleaseTxns(res) ==
    [k \in 1..Len(res) |-> [item |-> res[k].item, type |-> "release",
                            quantity |-> res[k].quantity, order |-> res[k].order]]

release_inventory(db, tx, order) ==
    LET res == Reservations(tx, order)
    IN  [inv  |-> ReleaseRows(db, res, Len(res)),
         txns |-> tx \o ReleaseTxns(res),
         ret  |-> TRUE]

Picks(items) == [1..Len(items) -> Recs \cup {NoRow}]

\* a session that commits after every line
CommittedLinesEach(done, raised) == done

\* the lines whose changes are in the database when a call of reserve_inventory or
\* release_inventory ends after working through `done` of them: db.commit() is the
\* last statement, and a call that raises leaves its session to db.close(), which
\* rolls back
CommittedLines(done, raised) == IF raised THEN 0 ELSE done

\* reserve_inventory when the query of line failAt raises, or db.commit() does
\* (failAt = Len(items) + 1)
reserve_inventory_raising(db, tx, order, items, pick, failAt) ==
    LET n == CommittedLines(failAt - 1, TRUE)
    IN  [inv  |-> MemAfter(db, items, pick, n),
         txns |-> tx \o ReserveTxns(order, items, pick, n),
         ret  |-> "raised"]

\* release_inventory when loading the row of reservation failAt raises, or
\* db.commit() does (failAt = Len(res) + 1)
release_inventory_raising(db, tx, order, failAt) ==
    LET res == Reservations(tx, order)
        n == CommittedLines(failAt - 1, TRUE)
    IN  [inv  |-> ReleaseRows(db, res, n),
         txns |-> tx \o SubSeq(ReleaseTxns(res), 1, n),
         ret  |-> "raised"]

\* Python truthiness of an optional string
Truthy(x) == x \notin {None, ""}

\* --------------------------------------------------- inventory consumer
items_to_reserve(items) == SelectSeq(items, LAMBDA l : Truthy(l.sku))

\* dbOk: the database answers; when it does not, the session raises before commit
handle_order_created(db, tx, message, pick, dbOk) ==
    IF message.order_number = NoOrder \/ message.items = <<>>
    THEN [inv |-> db, txns |-> tx, outcome |-> "returned"]
    ELSE IF items_to_reserve(message.items) = <<>>
    THEN [inv |-> db, txns |-> tx, outcome |-> "returned"]
    ELSE IF ~dbOk
    THEN [inv |-> db, txns |-> tx, outcome |-> "raised"]
    ELSE LET r == reserve_inventory(db, tx, message.order_number,
                                    items_to_reserve(message.items), pick)
         IN  [inv |-> r.inv, txns |-> r.txns, outcome |-> "returned"]

\* a handler that releases whatever the status is
IsNotCancellationNever(new_status) == FALSE

IsNotCancellation(new_status) == Truthy(new_status) /\ new_status # "cancelled"

handle_order_cancelled(db, tx, message, dbOk) ==
    IF IsNotCancellation(message.new_status)
    THEN [inv |-> db, txns |-> tx, outcome |-> "returned"]
    ELSE IF message.order_number = NoOrder
    THEN [inv |-> db, txns |-> tx, outcome |-> "returned"]
    ELSE IF ~dbOk
    THEN [inv |-> db, txns |-> tx, outcome |-> "raised"]
    ELSE LET r == release_inventory(db, tx, message.order_number)
         IN  [inv |-> r.inv, txns |-> r.txns, outcome |-> "returned"]

\* -------------------------------------------------------------- messages
\* routing keys, split on "."
OrderCreated == <<"order", "created">>
OrderStatusChanged == <<"order", "status_changed">>
OrderCancelled == <<"order", "cancelled">>
ShipmentCreated == <<"shipment", "created">>
ShipmentUpdated == <<"shipment", "updated">>
InventoryLowStock == <<"inventory", "low_stock">>
TrackingEventAdded == <<"tracking", "event_added">>
Unknown == <<"unknown">>
NoKey == <<>>                     \* a body without _routing_key

Consumers == {"inventory", "tracking", "notification"}

\* queue.bind(exchange, routing_key=...), per consumer
Bindings ==
    [c \in Consumers |->
        CASE c = "inventory" -> {OrderCreated, OrderCancelled}
          [] c = "tracking" -> {OrderCreated}
          [] OTHER -> {OrderCreated, OrderStatusChanged, ShipmentCreated,
                       ShipmentUpdated, InventoryLowStock}]

\* a body that json.loads accepts, with its _routing_key
Event(id, key, data) ==
    [id |-> id, key |-> key, json |-> TRUE, rk |-> key,
     order_number |-> data.order_number, items |-> data.items,
     new_status |-> data.new_status, customer_email |-> data.customer_email,
     recipient |-> None, tracking_number |-> data.tracking_number]

\* a body that json.loads rejects
Garbage(id, key) ==
    [id |-> id, key |-> key, json |-> FALSE, rk |-> NoKey,
     order_number |-> NoOrder, items |-> <<>>, new_status |-> None,
     customer_email |-> None, recipient |-> None, tracking_number |-> 0]

\* the topic exchange: a copy of the message to every queue bound with its key
Routed(q, msg) ==
    [c \in Consumers |-> IF msg.key \in Bindings[c] THEN Append(q[c], msg) ELSE q[c]]

\* ---------------------------------------------------------- order service
CustomerEmail == "a@b.com"

\* the module-level event_publisher: "none" before the first call; an instance whose
\* connect() failed stays in place with no exchange
get_event_publisher(publisher, connectOk) ==
    IF publisher = "none"
    THEN IF connectOk THEN [publisher |-> "connected", raised |-> FALSE]
                      ELSE [publisher |-> "unconnected", raised |-> TRUE]
    ELSE [publisher |-> publisher, raised |-> FALSE]

\* _publish sends only on a declared exchange, and swallows a failed publish
Published(publisher, publishOk) == publisher = "connected" /\ publishOk

\* _publish of the order service, after get_event_publisher
OrderPublish(key, data, connectOk, publishOk) ==
    LET g == get_event_publisher(opub, connectOk)
    IN  /\ opub' = g.publisher
        /\ IF ~g.raised /\ Published(g.publisher, publishOk)
           THEN /\ queue' = Routed(queue, Event(nmsg + 1, key, data))
                /\ nmsg' = nmsg + 1
                /\ sent' = sent \cup {[key |-> key, order_number |-> data.order_number,
                                       new_status |-> data.new_status,
                                       reserved |-> Reservations(txns, data.order_number)]}
           ELSE UNCHANGED <<queue, nmsg, sent>>

\* POST /api/v1/orders
CreateOrder(items, connectOk, publishOk) ==
    /\ reqs < MaxRequests
    /\ reqs' = reqs + 1
    /\ LET n == generate_order_number(now)
       IN  IF orders[n].status # "none"
           THEN \* order_number is unique: the insert fails, the request answers 500
                UNCHANGED <<orders, opub, queue, nmsg, sent>>
           ELSE /\ orders' = [orders EXCEPT ![n] =
                        [status |-> "pending", items |-> items,
                         response |-> IF get_event_publisher(opub, connectOk).raised
                                      THEN "500" ELSE "201"]]
                /\ OrderPublish(OrderCreated,
                                [order_number |-> n, items |-> items, new_status |-> None,
                                 customer_email |-> CustomerEmail, tracking_number |-> 0],
                                connectOk, publishOk)
    /\ UNCHANGED <<procVars, objVars, events, snd, invVars, now, settled, foreign, trackingVars, notifs>>

\* PUT /api/v1/orders/{id}/status
UpdateOrderStatus(n, status, connectOk, publishOk) ==
    /\ reqs < MaxRequests
    /\ reqs' = reqs + 1
    /\ orders[n].status # "none"
    /\ orders' = [orders EXCEPT ![n].status = status]
    /\ OrderPublish(OrderStatusChanged,
                    [order_number |-> n, items |-> <<>>, new_status |-> status,
                     customer_email |-> CustomerEmail, tracking_number |-> 0],
                    connectOk, publishOk)
    /\ UNCHANGED <<procVars, objVars, events, snd, invVars, now, settled, foreign, trackingVars, notifs>>

\* DELETE /api/v1/orders/{id}
CancelOrder(n) ==
    /\ reqs < MaxRequests
    /\ reqs' = reqs + 1
    /\ orders[n].status # "none"
    /\ orders' = [orders EXCEPT ![n].status = "cancelled"]
    /\ UNCHANGED <<procVars, objVars, events, snd, invVars, now, opub, brokerVars, trackingVars, notifs>>

\* another client of the broker publishes a body that is not JSON
ForeignPublish(key) ==
    /\ foreign < MaxForeign
    /\ foreign' = foreign + 1
    /\ queue' = Routed(queue, Garbage(nmsg + 1, key))
    /\ nmsg' = nmsg + 1
    /\ UNCHANGED <<procVars, objVars, events, snd, invVars, now, orderVars, sent, settled, trackingVars, notifs>>

\* another client publishes a well-formed order.created body that carries
\* no _routing_key field
ForeignEvent(order) ==
    /\ foreign < MaxForeign
    /\ foreign' = foreign + 1
    /\ queue' = Routed(queue,
            [Event(nmsg + 1, OrderCreated,
                   [order_number |-> order, items |-> <<[sku |-> "A", quantity |-> 1]>>,
                    new_status |-> None, customer_email |-> CustomerEmail,
                    tracking_number |-> 0])
                EXCEPT !.rk = NoKey])
    /\ nmsg' = nmsg + 1
    /\ UNCHANGED <<procVars, objVars, events, snd, invVars, now, orderVars, sent, settled, trackingVars, notifs>>

Tick ==
    /\ now + 1 \in Seconds
    /\ now' = now + 1
    /\ UNCHANGED <<procVars, objVars, events, snd, invVars, orderVars, brokerVars, trackingVars, notifs>>

\* -------------------------------------------------------------- consumers
\* a consumer without the except clauses
EscapesOnError(outcome) == outcome \in {"decode_error", "raised"}

\* whether an exception raised while a message is handled leaves the
\* `async with message.process()` block: the except clauses inside it catch all
Escapes(outcome) == FALSE

\* message.process(): ack when the block ends normally, reject otherwise
Settlement(outcome) == IF Escapes(outcome) THEN "reject" ELSE "ack"

Settled(c, msg, order, handler, outcome) ==
    [consumer |-> c, id |-> msg, order |-> order, handler |-> handler,
     outcome |-> outcome, settle |-> Settlement(outcome)]

\* routing keys and patterns as text: sequences of characters
KeyChars == {"a", "A", ".", "#"}
PatternChars == {"a", "A", ".", "#", "*"}
Texts(chars) == UNION {[1..n -> chars] : n \in 0..MaxKeyLen}

RECURSIVE split(_)
\* str.split("."): an empty text has one, empty, segment
split(text) ==
    IF text = <<>> THEN << <<>> >>
    ELSE IF Head(text) = "." THEN << <<>> >> \o split(Tail(text))
    ELSE LET rest == split(Tail(text))
         IN  << <<Head(text)>> \o Head(rest) >> \o Tail(rest)

\* a matcher that compares along the pattern only
_matches_pattern_prefix(routing_key, pattern) ==
    IF pattern = <<"#">> THEN TRUE
    ELSE LET key_parts == split(routing_key)
             pattern_parts == split(pattern)
         IN  \A i \in 1..Len(pattern_parts) :
                 \/ i > Len(key_parts)
                 \/ pattern_parts[i] = <<"*">>
                 \/ pattern_parts[i] = key_parts[i]

\* MessageConsumer._matches_pattern
_matches_pattern(routing_key, pattern) ==
    IF pattern = <<"#">> THEN TRUE
    ELSE LET key_parts == split(routing_key)
             pattern_parts == split(pattern)
         IN  IF Len(key_parts) # Len(pattern_parts) THEN FALSE
             ELSE \A i \in 1..Len(pattern_parts) :
                     pattern_parts[i] = <<"*">> \/ pattern_parts[i] = key_parts[i]

\* MessageConsumer._matches_pattern, on keys already split at "."
matches_pattern(routing_key, pattern) ==
    IF pattern = <<"#">> THEN TRUE
    ELSE IF Len(routing_key) # Len(pattern) THEN FALSE
    ELSE \A i \in 1..Len(pattern) : pattern[i] = "*" \/ pattern[i] = routing_key[i]

\* register_handler calls of the inventory consumer, in order
Handlers ==
    <<[pattern |-> OrderCreated, handler |-> "handle_order_created"],
      [pattern |-> OrderCancelled, handler |-> "handle_order_cancelled"]>>

\* the first registered handler whose pattern matches
FindHandler(routing_key) ==
    LET hits == {i \in 1..Len(Handlers) : matches_pattern(routing_key, Handlers[i].pattern)}
    IN  IF hits = {} THEN None
        ELSE Handlers[CHOOSE i \in hits : \A j \in hits : i <= j].handler

\* MessageConsumer._process_message of the inventory consumer
InvDeliver(dbOk) ==
    /\ queue["inventory"] # <<>>
    /\ LET m == Head(queue["inventory"])
           routing_key == IF m.rk = NoKey THEN Unknown ELSE m.rk
           h == IF m.json THEN FindHandler(routing_key) ELSE None
       IN  /\ queue' = [queue EXCEPT !["inventory"] = Tail(@)]
           /\ \E pick \in Picks(items_to_reserve(m.items)) :
               /\ FirstRows(inv, items_to_reserve(m.items), pick)
               /\ LET r == CASE h = "handle_order_created" ->
                                    handle_order_created(inv, txns, m, pick, dbOk)
                             [] h = "handle_order_cancelled" ->
                                    handle_order_cancelled(inv, txns, m, dbOk)
                             [] OTHER ->
                                    [inv |-> inv, txns |-> txns,
                                     outcome |-> IF m.json THEN "no_handler"
                                                 ELSE "decode_error"]
                  IN  /\ inv' = r.inv
                      /\ txns' = r.txns
                      /\ settled' = settled \cup
                            {Settled("inventory", m.id, m.order_number, h, r.outcome)}
    /\ UNCHANGED <<procVars, objVars, events, snd, last, calls, now, orderVars, nmsg, sent, foreign, trackingVars, notifs>>

\* ------------------------------------------------------- tracking service
\* TRK-yyyyMMddHHmmss: a tracking number is the second it was generated in
generate_tracking_number(second) == second

ShipmentsOf(order) == {sh \in shipments : sh.order_number = order}

\* get_shipment_by_order_number
ShipmentExists(order) == ShipmentsOf(order) # {}

\* process_order_created up to its first await: check, create_shipment, and
\* get_event_publisher / _publish as far as they run without waiting.
\* A failure inside is logged and swallowed by the handler itself.
StartShipment(id, order, dbOk) ==
    LET tn == generate_tracking_number(now)
        done(outcome) ==
            /\ settled' = settled \cup
                  {Settled("tracking", id, order, "process_order_created", outcome)}
            /\ UNCHANGED <<shipments, tasks, tpub>>
    IN  IF order = NoOrder THEN done("returned")
        ELSE IF ~dbOk THEN done("raised")
        ELSE IF ShipmentExists(order) THEN done("returned")
        ELSE IF \E sh \in shipments : sh.tracking_number = tn
        THEN \* tracking_number is unique: the insert fails
             done("raised")
        ELSE /\ shipments' = shipments \cup {[tracking_number |-> tn, order_number |-> order]}
             /\ CASE tpub = "none" ->
                        /\ tpub' = "connecting"
                        /\ tasks' = tasks \cup {[id |-> id, order |-> order,
                                                 tracking_number |-> tn, pc |-> "connect"]}
                        /\ UNCHANGED settled
                  [] tpub = "connected" ->
                        /\ tasks' = tasks \cup {[id |-> id, order |-> order,
                                                 tracking_number |-> tn, pc |-> "publish"]}
                        /\ UNCHANGED <<tpub, settled>>
                  [] OTHER ->
                        \* an instance without exchange: _publish warns and returns
                        /\ settled' = settled \cup
                              {Settled("tracking", id, order, "process_order_created",
                                       "returned")}
                        /\ UNCHANGED <<tasks, tpub>>

\* OrderEventConsumer.on_message
TrkDeliver(dbOk) ==
    /\ queue["tracking"] # <<>>
    /\ LET m == Head(queue["tracking"])
           routing_key == IF m.rk = NoKey THEN m.key ELSE m.rk
       IN  /\ queue' = [queue EXCEPT !["tracking"] = Tail(@)]
           /\ IF ~m.json
              THEN /\ settled' = settled \cup
                        {Settled("tracking", m.id, m.order_number, None, "decode_error")}
                   /\ UNCHANGED trackingVars
              ELSE IF routing_key # OrderCreated
              THEN /\ settled' = settled \cup
                        {Settled("tracking", m.id, m.order_number, None, "no_handler")}
                   /\ UNCHANGED trackingVars
              ELSE StartShipment(m.id, m.order_number, dbOk)
    /\ UNCHANGED <<procVars, objVars, events, snd, invVars, now, orderVars, nmsg, sent, foreign, notifs>>

\* get_event_publisher of the tracking service: connect() ends
TrkConnect(t, connectOk) ==
    /\ t \in tasks
    /\ t.pc = "connect"
    /\ IF connectOk
       THEN /\ tpub' = "connected"
            /\ tasks' = (tasks \ {t}) \cup {[t EXCEPT !.pc = "publish"]}
            /\ UNCHANGED settled
       ELSE /\ tpub' = "unconnected"
            /\ tasks' = tasks \ {t}
            /\ settled' = settled \cup
                  {Settled("tracking", t.id, t.order, "process_order_created", "raised")}
    /\ UNCHANGED <<procVars, objVars, events, snd, invVars, now, orderVars, queue, nmsg, sent, foreign, shipments, notifs>>

\* publish_shipment_created: exchange.publish ends, the handler returns
TrkPublish(t, publishOk) ==
    /\ t \in tasks
    /\ t.pc = "publish"
    /\ tasks' = tasks \ {t}
    /\ settled' = settled \cup
          {Settled("tracking", t.id, t.order, "process_order_created", "returned")}
    /\ IF Published(tpub, publishOk)
       THEN /\ queue' = Routed(queue,
                    Event(nmsg + 1, ShipmentCreated,
                          [order_number |-> t.order, items |-> <<>>, new_status |-> None,
                           customer_email |-> None,
                           tracking_number |-> t.tracking_number]))
            /\ nmsg' = nmsg + 1
            /\ sent' = sent \cup {[key |-> ShipmentCreated, order_number |-> t.order,
                                   new_status |-> None,
                                   reserved |-> Reservations(txns, t.order)]}
       ELSE UNCHANGED <<queue, nmsg, sent>>
    /\ UNCHANGED <<procVars, objVars, events, snd, invVars, now, orderVars, foreign, shipments, tpub, notifs>>

\* POST /api/v1/shipments/{tracking_number}/events on an existing shipment:
\* create_tracking_event, then publish_tracking_event
AddTrackingEvent(sh, connectOk, publishOk) ==
    /\ reqs < MaxRequests
    /\ reqs' = reqs + 1
    /\ sh \in shipments
    /\ events' = events \cup {[tracking_number |-> sh.tracking_number, id |-> reqs + 1]}
    /\ LET g == get_event_publisher(tpub, connectOk)
       IN  /\ tpub' = g.publisher
           /\ IF ~g.raised /\ Published(g.publisher, publishOk)
              THEN /\ queue' = Routed(queue,
                           Event(nmsg + 1, TrackingEventAdded,
                                 [order_number |-> sh.order_number, items |-> <<>>,
                                  new_status |-> None, customer_email |-> None,
                                  tracking_number |-> sh.tracking_number]))
                   /\ nmsg' = nmsg + 1
                   /\ sent' = sent \cup {[key |-> TrackingEventAdded,
                                          order_number |-> sh.order_number,
                                          new_status |-> None,
                                          reserved |-> Reservations(txns, sh.order_number)]}
              ELSE UNCHANGED <<queue, nmsg, sent>>
    /\ UNCHANGED <<procVars, objVars, snd, invVars, now, orders, opub, settled, foreign, shipments,
                   tasks, notifs>>

\* --------------------------------------------------- notification service
TemplateMapping ==
    [k \in {OrderCreated, OrderStatusChanged, ShipmentCreated, ShipmentUpdated,
            InventoryLowStock} |->
        CASE k = OrderCreated -> "order_confirmation"
          [] k = OrderStatusChanged -> "order_status_update"
          [] k = ShipmentCreated -> "shipment_created"
          [] k = ShipmentUpdated -> "shipment_tracking_update"
          [] OTHER -> "inventory_low_stock_alert"]

\* the templates seed_templates stores at startup
Templates == {TemplateMapping[k] : k \in DOMAIN TemplateMapping}

\* event_data.get("customer_email") or event_data.get("recipient")
recipient_of(event_data) ==
    IF Truthy(event_data.customer_email) THEN event_data.customer_email
    ELSE event_data.recipient

\* a handler that sends to nobody in particular
HasRecipientAlways(event_data) == TRUE

HasRecipient(event_data) == Truthy(recipient_of(event_data))

\* create_from_event, and send_notification with the database answering throughout;
\* templates: the rows of notification_templates
create_from_event(table, templates, event_type, event_data, dbOk) ==
    IF event_type \notin DOMAIN TemplateMapping
    THEN [notifs |-> table, outcome |-> "returned"]
    ELSE IF ~dbOk
    THEN [notifs |-> table, outcome |-> "raised"]
    ELSE IF TemplateMapping[event_type] \notin templates
    THEN [notifs |-> table, outcome |-> "returned"]
    ELSE IF ~HasRecipient(event_data)
    THEN [notifs |-> table, outcome |-> "returned"]
    ELSE [notifs |-> Append(table,
                        [notification_type |-> event_type,
                         template |-> TemplateMapping[event_type],
                         recipient |-> recipient_of(event_data),
                         order_number |-> event_data.order_number,
                         status |-> "sent", sent_at |-> TRUE]),
          outcome |-> "returned"]

\* NotificationConsumer._process_message on the head of the queue
NtfProcess(templates, dbOk) ==
    /\ queue["notification"] # <<>>
    /\ LET m == Head(queue["notification"])
           routing_key == IF m.rk = NoKey THEN m.key ELSE m.rk
       IN  /\ queue' = [queue EXCEPT !["notification"] = Tail(@)]
           /\ IF ~m.json
              THEN /\ settled' = settled \cup
                        {Settled("notification", m.id, m.order_number, None, "decode_error")}
                   /\ UNCHANGED notifs
              ELSE IF routing_key \notin DOMAIN TemplateMapping
              THEN /\ settled' = settled \cup
                        {Settled("notification", m.id, m.order_number, None, "no_handler")}
                   /\ UNCHANGED notifs
              ELSE LET r == create_from_event(notifs, templates, routing_key, m, dbOk)
                   IN  /\ notifs' = r.notifs
                       /\ settled' = settled \cup
                             {Settled("notification", m.id, m.order_number,
                                      "create_from_event", r.outcome)}

\* a delivery to the notification consumer, the templates seeded at startup in place
NtfDeliver(dbOk) ==
    /\ NtfProcess(Templates, dbOk)
    /\ UNCHANGED <<procVars, objVars, events, snd, invVars, now, orderVars, nmsg, sent, foreign, trackingVars>>

\* send_notification, one database call at a time. snd.pc names the call it is at:
\* "refresh1" after the insert is committed, "commit2" and "refresh2" in the try
\* block, "commit3" and "refresh3" in the except block
\* no send_notification call is running
NoSend == [pc |-> "idle", row |-> 0]

SendEnded(row, how) == [op |-> "send_notification", row |-> row, ended |-> how]

\* POST /notifications, or create_from_event: the row is added with status "pending"
\* and committed
SendBegin(notification_type, ok) ==
    /\ snd.pc = "idle"
    /\ calls < MaxCalls
    /\ calls' = calls + 1
    /\ IF ok
       THEN /\ notifs' = Append(notifs,
                    [notification_type |-> notification_type, template |-> None,
                     recipient |-> CustomerEmail, order_number |-> NoOrder,
                     status |-> "pending", sent_at |-> FALSE])
            /\ snd' = [pc |-> "refresh1", row |-> Len(notifs) + 1]
            /\ UNCHANGED last
       ELSE /\ last' = SendEnded(0, "raised")
            /\ UNCHANGED <<notifs, snd>>
    /\ UNCHANGED <<procVars, objVars, events, inv, txns, now, orderVars, brokerVars, trackingVars>>

\* the database call send_notification is at succeeds (ok) or raises
SendStep(ok) ==
    /\ snd.pc # "idle"
    /\ CASE snd.pc = "refresh1" ->
              \* outside the try block: a failure leaves the function
              /\ IF ok THEN snd' = [snd EXCEPT !.pc = "commit2"] /\ UNCHANGED last
                       ELSE snd' = NoSend /\ last' = SendEnded(snd.row, "raised")
              /\ UNCHANGED notifs
         [] snd.pc = "commit2" ->
              \* status = "sent", sent_at = utcnow(), commit; a failed commit is
              \* rolled back and caught
              /\ IF ok THEN /\ notifs' = [notifs EXCEPT ![snd.row].status = "sent",
                                                        ![snd.row].sent_at = TRUE]
                            /\ snd' = [snd EXCEPT !.pc = "refresh2"]
                       ELSE /\ snd' = [snd EXCEPT !.pc = "commit3"]
                            /\ UNCHANGED notifs
              /\ UNCHANGED last
         [] snd.pc = "refresh2" ->
              /\ IF ok THEN snd' = NoSend /\ last' = SendEnded(snd.row, "returned")
                       ELSE snd' = [snd EXCEPT !.pc = "commit3"] /\ UNCHANGED last
              /\ UNCHANGED notifs
         [] snd.pc = "commit3" ->
              \* except: status = "failed", commit; a failure here leaves the function
              /\ IF ok THEN /\ notifs' = [notifs EXCEPT ![snd.row].status = "failed"]
                            /\ snd' = [snd EXCEPT !.pc = "refresh3"]
                            /\ UNCHANGED last
                       ELSE /\ snd' = NoSend
                            /\ last' = SendEnded(snd.row, "raised")
                            /\ UNCHANGED notifs
         [] OTHER ->
              /\ snd' = NoSend
              /\ last' = SendEnded(snd.row, IF ok THEN "returned" ELSE "raised")
              /\ UNCHANGED notifs
    /\ UNCHANGED <<procVars, objVars, events, inv, txns, calls, now, orderVars, brokerVars, trackingVars>>

\* the template sets of a run: all seeded, one row missing, none
TemplateSets == {Templates, {}} \cup {Templates \ {t} : t \in Templates}

\* a client publishes an event bound to the notification queue; the body's
\* _routing_key, customer_email and recipient are the client's
NotifyPublish(key, rk, email, recipient) ==
    /\ foreign < MaxForeign
    /\ foreign' = foreign + 1
    /\ queue["notification"] = <<>>
    /\ queue' = Routed(queue,
            [Event(nmsg + 1, key,
                   [order_number |-> generate_order_number(now), items |-> <<>>,
                    new_status |-> None, customer_email |-> email, tracking_number |-> 0])
                EXCEPT !.rk = rk, !.recipient = recipient])
    /\ nmsg' = nmsg + 1
    /\ UNCHANGED <<procVars, objVars, events, snd, invVars, now, orderVars, sent, settled, trackingVars,
                   notifs>>

\* a delivery to the notification consumer, whatever rows notification_templates has
NtfDeliverAny(templates, dbOk) ==
    /\ NtfProcess(templates, dbOk)
    /\ LET m == Head(queue["notification"])
       IN  last' = [op |-> "_process_message", id |-> m.id,
                    routing_key |-> IF m.rk = NoKey THEN m.key ELSE m.rk,
                    customer_email |-> m.customer_email, recipient |-> m.recipient,
                    templates |-> templates, dbOk |-> dbOk, pre |-> notifs]
    /\ UNCHANGED <<procVars, objVars, events, snd, inv, txns, calls, now, orderVars, nmsg, sent, foreign,
                   trackingVars>>

\* ------------------------------------------------- calls, one at a time
Call(op, order, items, status, ret, outcome) ==
    [op |-> op, order |-> order, items |-> items, status |-> status,
     pre |-> inv, ntx |-> Len(txns), ret |-> ret, outcome |-> outcome, failed_at |-> 0]

\* POST /inventory/reserve
ReserveCall(order, items) ==
    /\ calls < MaxCalls
    /\ \E pick \in Picks(items) :
        /\ FirstRows(inv, items, pick)
        /\ LET r == reserve_inventory(inv, txns, order, items, pick)
           IN  /\ inv' = r.inv
               /\ txns' = r.txns
               /\ last' = Call("reserve_inventory", order, items, None, r.ret, "returned")
    /\ calls' = calls + 1
    /\ UNCHANGED sysVars

\* POST /inventory/release
ReleaseCall(order) ==
    /\ calls < MaxCalls
    /\ LET r == release_inventory(inv, txns, order)
       IN  /\ inv' = r.inv
           /\ txns' = r.txns
           /\ last' = Call("release_inventory", order, <<>>, None, r.ret, "returned")
    /\ calls' = calls + 1
    /\ UNCHANGED sysVars

\* the inventory consumer's order.created handler, invoked with a payload
HandleOrderCreated(message) ==
    /\ calls < MaxCalls
    /\ \E pick \in Picks(items_to_reserve(message.items)) :
        /\ FirstRows(inv, items_to_reserve(message.items), pick)
        /\ LET r == handle_order_created(inv, txns, message, pick, TRUE)
           IN  /\ inv' = r.inv
               /\ txns' = r.txns
               /\ last' = Call("handle_order_created", message.order_number,
                               message.items, None, TRUE, r.outcome)
    /\ calls' = calls + 1
    /\ UNCHANGED sysVars

\* the inventory consumer's release handler, invoked with a payload
HandleOrderCancelled(message) ==
    /\ calls < MaxCalls
    /\ LET r == handle_order_cancelled(inv, txns, message, TRUE)
       IN  /\ inv' = r.inv
           /\ txns' = r.txns
           /\ last' = Call("handle_order_cancelled", message.order_number,
                           <<>>, message.new_status, TRUE, r.outcome)
    /\ calls' = calls + 1
    /\ UNCHANGED sysVars

\* no start routine has been called
NoRun == [who |-> "none", pc |-> "idle", running |-> FALSE, laps |-> 0]

\* the gateway has proxied nothing
NoProxy == [pc |-> "idle", attempt |-> 0, log |-> <<>>, result |-> 0, served |-> 0]

\* the module global event_publisher is None and nobody has asked for it
NoGetters == [global |-> "none", callers |-> [c \in Callers |-> [pc |-> "idle", got |-> "none"]]]

InitSys ==
    /\ now = 1
    /\ orders = [n \in Orders |-> [status |-> "none", items |-> <<>>, response |-> None]]
    /\ opub = "none"
    /\ reqs = 0
    /\ queue = [c \in Consumers |-> <<>>]
    /\ nmsg = 0
    /\ sent = {}
    /\ settled = {}
    /\ foreign = 0
    /\ shipments = {}
    /\ tasks = {}
    /\ tpub = "none"
    /\ notifs = <<>>
    /\ events = {}
    /\ snd = NoSend
    /\ run = NoRun
    /\ gw = NoProxy
    /\ gp = NoGetters

\* a publisher object as __init__ leaves it
NewPublisher(class) ==
    [class |-> class, connection |-> "none", channel |-> "none", exchange |-> "none",
     pc |-> "idle"]

\* a MessageConsumer object as __init__ leaves it, and an empty queue
NewConsumer ==
    [handlers |-> <<>>, log |-> <<>>, connection |-> "none",
     arrived |-> 0, ready |-> 0, unacked |-> 0, acked |-> 0, orphans |-> 0,
     requeued |-> FALSE]

InitObj ==
    /\ pub = NewPublisher("MessagePublisher")
    /\ con = NewConsumer

InitInv ==
    /\ InitSys
    /\ InitObj
    /\ inv = [r \in Recs |-> [quantity |-> InitialStock[r], reserved_quantity |-> 0]]
    /\ txns = <<>>
    /\ last = [op |-> None, order |-> NoOrder, items |-> <<>>, status |-> None,
               pre |-> inv, ntx |-> 0, ret |-> TRUE, outcome |-> None, failed_at |-> 0]
    /\ calls = 0

\* the inventory service's operations, called directly
NextInv ==
    \/ \E o \in Orders, items \in ItemLists : ReserveCall(o, items)
    \/ \E o \in Orders : ReleaseCall(o)

SpecInv == InitInv /\ [][NextInv]_vars

\* the inventory consumer's handlers, invoked with any payload
NextHandlers ==
    \/ \E m \in CreatedPayloads : HandleOrderCreated(m)
    \/ \E m \in CancelPayloads : HandleOrderCancelled(m)

SpecHandlers == InitInv /\ [][NextHandlers]_vars

\* the events of the orders placed through the API, as the inventory consumer gets them
DeliveredCreated == [order_number : Orders, items : OrderItemLists]
DeliveredCancelled == [order_number : Orders, new_status : {"cancelled", None}]

\* the inventory consumer is delivered an order.created event, a first or a repeated
\* time: the handler runs, the message is acknowledged
DeliverCreated(message) ==
    /\ calls < MaxDeliveries
    /\ \E pick \in Picks(items_to_reserve(message.items)) :
        /\ FirstRows(inv, items_to_reserve(message.items), pick)
        /\ LET r == handle_order_created(inv, txns, message, pick, TRUE)
           IN  /\ inv' = r.inv
               /\ txns' = r.txns
               /\ last' = Call("handle_order_created", message.order_number,
                               message.items, None, TRUE, r.outcome)
               /\ settled' = settled \cup
                     {Settled("inventory", calls + 1, message.order_number,
                              "handle_order_created", r.outcome)}
    /\ calls' = calls + 1
    /\ UNCHANGED <<procVars, objVars, events, snd, now, orderVars, queue, nmsg, sent, foreign,
                   trackingVars, notifs>>

\* the inventory consumer is delivered a cancellation event, a first or a repeated time
DeliverCancelled(message) ==
    /\ calls < MaxDeliveries
    /\ LET r == handle_order_cancelled(inv, txns, message, TRUE)
       IN  /\ inv' = r.inv
           /\ txns' = r.txns
           /\ last' = Call("handle_order_cancelled", message.order_number,
                           <<>>, message.new_status, TRUE, r.outcome)
           /\ settled' = settled \cup
                 {Settled("inventory", calls + 1, message.order_number,
                          "handle_order_cancelled", r.outcome)}
    /\ calls' = calls + 1
    /\ UNCHANGED <<procVars, objVars, events, snd, now, orderVars, queue, nmsg, sent, foreign,
                   trackingVars, notifs>>

\* a delivery of an order.created event whose reserve_inventory raises at failAt:
\* the handler logs and raises again, the consumer logs, the message is acknowledged
FailCreated(message, failAt) ==
    /\ calls < MaxDeliveries
    /\ failAt \in 1..Len(items_to_reserve(message.items)) + 1
    /\ \E pick \in Picks(items_to_reserve(message.items)) :
        /\ FirstRows(inv, items_to_reserve(message.items), pick)
        /\ LET r == reserve_inventory_raising(inv, txns, message.order_number,
                                              items_to_reserve(message.items), pick, failAt)
           IN  /\ inv' = r.inv
               /\ txns' = r.txns
    /\ last' = [Call("handle_order_created", message.order_number, message.items, None,
                     TRUE, "raised") EXCEPT !.failed_at = failAt]
    /\ settled' = settled \cup
          {Settled("inventory", calls + 1, message.order_number, "handle_order_created",
                   "raised")}
    /\ calls' = calls + 1
    /\ UNCHANGED <<procVars, objVars, events, snd, now, orderVars, queue, nmsg, sent, foreign,
                   trackingVars, notifs>>

\* a delivery of a cancellation event whose release_inventory raises at failAt
FailCancelled(message, failAt) ==
    /\ calls < MaxDeliveries
    /\ failAt \in 1..Len(Reservations(txns, message.order_number)) + 1
    /\ LET r == release_inventory_raising(inv, txns, message.order_number, failAt)
       IN  /\ inv' = r.inv
           /\ txns' = r.txns
    /\ last' = [Call("handle_order_cancelled", message.order_number, <<>>,
                     message.new_status, TRUE, "raised") EXCEPT !.failed_at = failAt]
    /\ settled' = settled \cup
          {Settled("inventory", calls + 1, message.order_number, "handle_order_cancelled",
                   "raised")}
    /\ calls' = calls + 1
    /\ UNCHANGED <<procVars, objVars, events, snd, now, orderVars, queue, nmsg, sent, foreign,
                   trackingVars, notifs>>

\* at-least-once delivery to the inventory consumer, in any order
NextDeliveries ==
    \/ \E m \in DeliveredCreated : DeliverCreated(m)
    \/ \E m \in DeliveredCancelled : DeliverCancelled(m)

SpecDeliveries == InitInv /\ [][NextDeliveries]_vars

\* the database calls of one invocation, in order: one per line or reservation, then
\* the commit
FailPoints == 1..(MaxDeliveries + 1)

\* deliveries to the inventory consumer on a database that may fail at any call
NextAtomic ==
    \/ \E m \in DeliveredCreated : DeliverCreated(m)
    \/ \E m \in DeliveredCancelled : DeliverCancelled(m)
    \/ \E m \in DeliveredCreated, k \in FailPoints : FailCreated(m, k)
    \/ \E m \in DeliveredCancelled, k \in FailPoints : FailCancelled(m, k)

SpecAtomic == InitInv /\ [][NextAtomic]_vars

\* the tracking consumer's handler, invoked with an order.created payload
TrkInvoke(order) ==
    /\ nmsg < MaxInvocations
    /\ nmsg' = nmsg + 1
    /\ StartShipment(nmsg + 1, order, TRUE)
    /\ UNCHANGED <<procVars, objVars, events, snd, invVars, now, orderVars, queue, sent, foreign, notifs>>

NextTrk ==
    \/ \E o \in Orders : TrkInvoke(o)
    \/ \E t \in tasks, ok \in BOOLEAN : TrkConnect(t, ok)
    \/ \E t \in tasks, ok \in BOOLEAN : TrkPublish(t, ok)
    \/ Tick

SpecTrk == InitInv /\ [][NextTrk]_vars

\* _matches_pattern applied to a routing key and a pattern
MatchCall ==
    /\ last.op = "input"
    /\ last' = [op |-> "_matches_pattern", routing_key |-> last.routing_key,
                pattern |-> last.pattern,
                ret |-> _matches_pattern(last.routing_key, last.pattern)]
    /\ UNCHANGED <<inv, txns, calls, sysVars>>

InitMatch ==
    /\ InitSys
    /\ InitObj
    /\ inv = [r \in Recs |-> [quantity |-> InitialStock[r], reserved_quantity |-> 0]]
    /\ txns = <<>>
    /\ calls = 0
    /\ last \in [op : {"input"}, routing_key : Texts(KeyChars), pattern : Texts(PatternChars)]

SpecMatch == InitMatch /\ [][MatchCall]_vars

\* ------------------------------------------------------ publisher objects
\* pub.connection, pub.channel, pub.exchange: "none" (the attribute is None), "open",
\* or "closed" (the attribute is set, what it refers to is closed)
PublisherClasses == {"MessagePublisher", "OrderEventPublisher", "TrackingEventPublisher"}

PubCall(op, raised, wasSent) ==
    [op |-> op, pre |-> pub, raised |-> raised, sent |-> wasSent]

\* connect() is called and waits for aio_pika.connect_robust
ConnectBegin ==
    /\ pub.pc = "idle"
    /\ pub' = [pub EXCEPT !.pc = "connect_robust"]
    /\ UNCHANGED <<procVars, con, events, snd, inv, txns, last, calls, now, orderVars, brokerVars, trackingVars,
                   notifs>>

\* the await connect() is at ends: the attribute is assigned, or the exception is
\* logged and raised again with the attributes left as they are
ConnectStep(ok) ==
    /\ pub.pc # "idle"
    /\ IF ~ok
       THEN /\ pub' = [pub EXCEPT !.pc = "idle"]
            /\ last' = PubCall("connect", "ConnectFailed", FALSE)
       ELSE CASE pub.pc = "connect_robust" ->
                    /\ pub' = [pub EXCEPT !.connection = "open", !.pc = "channel"]
                    /\ UNCHANGED last
              [] pub.pc = "channel" ->
                    /\ pub' = [pub EXCEPT !.channel = "open", !.pc = "declare_exchange"]
                    /\ UNCHANGED last
              [] OTHER ->
                    /\ pub' = [pub EXCEPT !.exchange = "open", !.pc = "idle"]
                    /\ last' = PubCall("connect", None, FALSE)
    /\ UNCHANGED <<procVars, con, events, snd, inv, txns, calls, now, orderVars, brokerVars, trackingVars, notifs>>

\* MessagePublisher.publish raises without exchange and raises a failed publish again;
\* the services' _publish warns and returns without exchange, and logs a failed publish.
\* exchange.publish fails on an exchange whose channel is closed.
publish(p, publishOk) ==
    IF p.exchange = "none"
    THEN [raised |-> IF p.class = "MessagePublisher" THEN "NotConnected" ELSE None,
          sent |-> FALSE]
    ELSE IF p.exchange = "open" /\ publishOk
    THEN [raised |-> None, sent |-> TRUE]
    ELSE [raised |-> IF p.class = "MessagePublisher" THEN "PublishFailed" ELSE None,
          sent |-> FALSE]

\* publish / _publish is called, also by a coroutine that runs while connect() waits
PublishCall(publishOk) ==
    /\ LET r == publish(pub, publishOk)
       IN  last' = PubCall("publish", r.raised, r.sent)
    /\ UNCHANGED <<procVars, objVars, events, snd, inv, txns, calls, now, orderVars, brokerVars, trackingVars,
                   notifs>>

\* close(): the connection is closed, and with it its channel; the attributes stay
CloseCall ==
    /\ pub.pc = "idle"
    /\ pub' = [pub EXCEPT
                  !.connection = IF @ = "none" THEN "none" ELSE "closed",
                  !.channel = IF pub.connection = "none" \/ @ = "none" THEN @ ELSE "closed",
                  !.exchange = IF pub.connection = "none" \/ @ = "none" THEN @ ELSE "closed"]
    /\ last' = PubCall("close", None, FALSE)
    /\ UNCHANGED <<procVars, con, events, snd, inv, txns, calls, now, orderVars, brokerVars, trackingVars, notifs>>

InitPub ==
    /\ InitSys
    /\ con = NewConsumer
    /\ pub \in {NewPublisher(c) : c \in PublisherClasses}
    /\ inv = [r \in Recs |-> [quantity |-> InitialStock[r], reserved_quantity |-> 0]]
    /\ txns = <<>>
    /\ calls = 0
    /\ last = [op |-> None, pre |-> pub, raised |-> None, sent |-> FALSE]

NextPub ==
    \/ ConnectBegin
    \/ \E ok \in BOOLEAN : ConnectStep(ok)
    \/ \E ok \in BOOLEAN : PublishCall(ok)
    \/ CloseCall

SpecPub == InitPub /\ [][NextPub]_vars

\* ------------------------------------------------- a consumer's channel
\* con.arrived: messages routed to the queue; con.ready: those waiting in it;
\* con.unacked: those delivered on the open connection and not yet acknowledged, one
\* running _process_message each; con.acked: those acknowledged; con.orphans: runs of
\* _process_message whose connection was closed under them; con.requeued: whether
\* the broker has put a delivered message back
prefetch_count == 10

\* a channel without set_qos
CanDeliverAlways(unacked) == TRUE

\* channel.set_qos(prefetch_count=10): the broker holds deliveries back at the limit
CanDeliver(unacked) == unacked < prefetch_count

\* a shutdown that takes the in-flight messages with it
RequeuedNone(unacked) == 0

\* what the broker puts back when the connection closes: every unacknowledged delivery;
\* close() acknowledges nothing and waits for no handler
Requeued(unacked) == unacked

\* get_inventory_consumer / start_consumer in a starting process
ConsumerStart ==
    /\ con.connection # "open"
    /\ con' = [con EXCEPT !.connection = "open", !.orphans = 0]
    /\ UNCHANGED <<procVars, pub, events, snd, inv, txns, last, calls, now, orderVars, brokerVars, trackingVars,
                   notifs>>

\* the exchange routes a message to the durable queue
Arrive ==
    /\ con.arrived < MaxBacklog
    /\ con' = [con EXCEPT !.arrived = @ + 1, !.ready = @ + 1]
    /\ UNCHANGED <<procVars, pub, events, snd, inv, txns, last, calls, now, orderVars, brokerVars, trackingVars,
                   notifs>>

\* the broker delivers the next message; _process_message starts
Deliver ==
    /\ con.connection = "open"
    /\ con.ready > 0
    /\ CanDeliver(con.unacked)
    /\ con' = [con EXCEPT !.ready = @ - 1, !.unacked = @ + 1]
    /\ UNCHANGED <<procVars, pub, events, snd, inv, txns, last, calls, now, orderVars, brokerVars, trackingVars,
                   notifs>>

\* a running _process_message leaves message.process(): the message is acknowledged
ProcessDone ==
    /\ con.connection = "open"
    /\ con.unacked > 0
    /\ con' = [con EXCEPT !.unacked = @ - 1, !.acked = @ + 1]
    /\ UNCHANGED <<procVars, pub, events, snd, inv, txns, last, calls, now, orderVars, brokerVars, trackingVars,
                   notifs>>

\* lifespan shutdown: MessageConsumer.close() closes the connection
ConsumerClose ==
    /\ con.connection = "open"
    /\ con' = [con EXCEPT !.connection = "closed",
                           !.ready = @ + Requeued(con.unacked),
                           !.unacked = 0,
                           !.orphans = con.unacked,
                           !.requeued = @ \/ Requeued(con.unacked) > 0]
    /\ UNCHANGED <<procVars, pub, events, snd, inv, txns, last, calls, now, orderVars, brokerVars, trackingVars,
                   notifs>>

\* a run whose connection is closed ends: its acknowledgement reaches no broker
OrphanDone ==
    /\ con.orphans > 0
    /\ con' = [con EXCEPT !.orphans = @ - 1]
    /\ UNCHANGED <<procVars, pub, events, snd, inv, txns, last, calls, now, orderVars, brokerVars, trackingVars,
                   notifs>>

NextChannel ==
    \/ ConsumerStart
    \/ Arrive
    \/ Deliver
    \/ ProcessDone
    \/ ConsumerClose
    \/ OrphanDone

SpecChannel == InitInv /\ [][NextChannel]_vars

\* ----------------------------------------------------- handler registry
\* patterns and handlers a service may register
Patterns == {OrderCreated, OrderCancelled, <<"order", "*">>, <<"#">>}
HandlerNames == {"handle_order_created", "handle_order_cancelled", "handle_any"}

\* self.handlers[routing_pattern] = handler on an insertion-ordered dict, and the
\* log entry that follows
register_handler(c, routing_pattern, handler) ==
    LET at == {i \in 1..Len(c.handlers) : c.handlers[i].pattern = routing_pattern}
        entry == [pattern |-> routing_pattern, handler |-> handler]
    IN  [c EXCEPT
            !.handlers = IF at = {} THEN Append(@, entry)
                         ELSE [i \in 1..Len(@) |-> IF i \in at THEN entry ELSE @[i]],
            !.log = Append(@, [event |-> "message_handler_registered",
                               pattern |-> routing_pattern])]

\* register_handler is called on the consumer
RegisterCall(routing_pattern, handler) ==
    /\ calls < MaxCalls
    /\ calls' = calls + 1
    /\ con' = register_handler(con, routing_pattern, handler)
    /\ last' = [op |-> "register_handler", pattern |-> routing_pattern,
                handler |-> handler, pre |-> con]
    /\ UNCHANGED <<procVars, pub, events, snd, inv, txns, now, orderVars, brokerVars, trackingVars, notifs>>

NextRegister == \E rp \in Patterns, h \in HandlerNames : RegisterCall(rp, h)

SpecRegister == InitInv /\ [][NextRegister]_vars

\* ------------------------------------------------------------ wire format
\* Python values a payload holds, by type, and the fields of a payload
PyTypes == {"str", "int", "list", "tuple"}
PyValues == [t : PyTypes, v : {"1"}]
Fields == {"order_number", "items", "_routing_key"}
Payloads == UNION {[D -> PyValues] : D \in SUBSET Fields}
WireKeys == {"order.created", "shipment.updated"}

\* json.dumps: str to string, int to number, list and tuple to array
json_dumps(obj) ==
    [f \in DOMAIN obj |->
        [t |-> CASE obj[f].t = "str" -> "string"
                 [] obj[f].t = "int" -> "number"
                 [] OTHER -> "array",
         v |-> obj[f].v]]

\* json.loads: string to str, number to int, array to list
json_loads(text) ==
    [f \in DOMAIN text |->
        [t |-> CASE text[f].t = "string" -> "str"
                 [] text[f].t = "number" -> "int"
                 [] OTHER -> "list",
         v |-> text[f].v]]

\* MessagePublisher.publish: the body it sends
enriched_message(routing_key, message) ==
    [f \in DOMAIN message \cup {"_timestamp", "_routing_key"} |->
        IF f = "_timestamp" THEN [t |-> "str", v |-> "utcnow"]
        ELSE IF f = "_routing_key" THEN [t |-> "str", v |-> routing_key]
        ELSE message[f]]

\* MessageConsumer._process_message: the routing key it dispatches on and the
\* argument it calls the handler with
Dispatched(body) ==
    [routing_key |-> IF "_routing_key" \in DOMAIN body THEN body["_routing_key"].v
                     ELSE "unknown",
     argument |-> body]

\* one message published by MessagePublisher.publish and handled by a MessageConsumer
WireCall ==
    /\ last.op = "publish"
    /\ LET d == Dispatched(json_loads(json_dumps(
                    enriched_message(last.routing_key, last.message))))
       IN  last' = [op |-> "handler", routing_key |-> last.routing_key,
                    message |-> last.message,
                    dispatched |-> d.routing_key, argument |-> d.argument]
    /\ UNCHANGED <<inv, txns, calls, sysVars>>

InitWire ==
    /\ InitSys
    /\ InitObj
    /\ inv = [r \in Recs |-> [quantity |-> InitialStock[r], reserved_quantity |-> 0]]
    /\ txns = <<>>
    /\ calls = 0
    /\ last \in [op : {"publish"}, routing_key : WireKeys, message : Payloads]

SpecWire == InitWire /\ [][WireCall]_vars

\* the services together
Next ==
    \/ \E items \in OrderItemLists, c \in BOOLEAN, p \in BOOLEAN : CreateOrder(items, c, p)
    \/ \E n \in Orders, st \in Statuses, c \in BOOLEAN, p \in BOOLEAN :
            UpdateOrderStatus(n, st, c, p)
    \/ \E n \in Orders : CancelOrder(n)
    \/ Tick
    \/ \E ok \in BOOLEAN : InvDeliver(ok)
    \/ \E ok \in BOOLEAN : TrkDeliver(ok)
    \/ \E t \in tasks, ok \in BOOLEAN : TrkConnect(t, ok)
    \/ \E t \in tasks, ok \in BOOLEAN : TrkPublish(t, ok)
    \/ \E ok \in BOOLEAN : NtfDeliver(ok)

Spec == InitInv /\ [][Next]_vars

\* the three consumers on a broker that other clients publish to as well
NextConsume ==
    \/ \E items \in OrderItemLists, c \in BOOLEAN, p \in BOOLEAN : CreateOrder(items, c, p)
    \/ \E k \in {OrderCreated, OrderStatusChanged} : ForeignPublish(k)
    \/ \E ok \in BOOLEAN : InvDeliver(ok)
    \/ \E ok \in BOOLEAN : TrkDeliver(ok)
    \/ \E t \in tasks, ok \in BOOLEAN : TrkConnect(t, ok)
    \/ \E t \in tasks, ok \in BOOLEAN : TrkPublish(t, ok)
    \/ \E ok \in BOOLEAN : NtfDeliver(ok)

SpecConsume == InitInv /\ [][NextConsume]_vars

\* the three consumers fed by a client whose bodies carry no _routing_key
NextBare ==
    \/ \E o \in Orders : ForeignEvent(o)
    \/ Tick
    \/ \E ok \in BOOLEAN : InvDeliver(ok)
    \/ \E ok \in BOOLEAN : TrkDeliver(ok)
    \/ \E t \in tasks, ok \in BOOLEAN : TrkConnect(t, ok)
    \/ \E t \in tasks, ok \in BOOLEAN : TrkPublish(t, ok)
    \/ \E ok \in BOOLEAN : NtfDeliver(ok)

SpecBare == InitInv /\ [][NextBare]_vars

\* the tracking service with its API, and the notification consumer
NextEvents ==
    \/ \E o \in Orders : TrkInvoke(o)
    \/ \E t \in tasks, ok \in BOOLEAN : TrkConnect(t, ok)
    \/ \E t \in tasks, ok \in BOOLEAN : TrkPublish(t, ok)
    \/ \E sh \in shipments, c \in BOOLEAN, p \in BOOLEAN : AddTrackingEvent(sh, c, p)
    \/ \E ok \in BOOLEAN : NtfDeliver(ok)
    \/ Tick

SpecEvents == InitInv /\ [][NextEvents]_vars

\* the notification consumer fed by any client of the exchange
NextNotify ==
    \/ \E key \in Bindings["notification"], bodyKey \in {OrderCreated, TrackingEventAdded},
          email \in {None, "", CustomerEmail}, recipient \in {None, CustomerEmail} :
            NotifyPublish(key, IF bodyKey = OrderCreated THEN key ELSE bodyKey,
                          email, recipient)
    \/ \E templates \in TemplateSets, ok \in BOOLEAN : NtfDeliverAny(templates, ok)

SpecNotify == InitInv /\ [][NextNotify]_vars

\* send_notification, called one call after the other
NextSend ==
    \/ \E t \in DOMAIN TemplateMapping, ok \in BOOLEAN : SendBegin(t, ok)
    \/ \E ok \in BOOLEAN : SendStep(ok)

SpecSend == InitInv /\ [][NextSend]_vars

\* ------------------------------------------------------------- properties
\* the rows the latest call appended
NewTxns == SubSeq(txns, last.ntx + 1, Len(txns))

\* the order already had a "reserve" row when the latest call began
HadReservation(order) ==
    \E i \in 1..last.ntx : txns[i].order = order /\ txns[i].type = "reserve"

\* before the latest call, some row of the SKU had at least q units available
WasSufficient(sku, q) ==
    \E r \in Recs : /\ RecSku[r] = sku
                    /\ last.pre[r].quantity - last.pre[r].reserved_quantity >= q

RECURSIVE QuantityOn(_, _)
\* the units a sequence of rows books on inventory row r
QuantityOn(seq, r) ==
    IF seq = <<>> THEN 0
    ELSE (IF Head(seq).item = r THEN Head(seq).quantity ELSE 0) + QuantityOn(Tail(seq), r)

Unchanged == inv = last.pre /\ Len(txns) = last.ntx

\* C6 as claimed: the release handler is a no-op for every payload whose new_status
\* is not exactly "cancelled", an absent or empty new_status included
C6_NoOpUnlessCancelled ==
    (last.op = "handle_order_cancelled" /\ last.status # "cancelled") => Unchanged

\* C6 amended: the release handler is a no-op for every payload whose new_status is
\* present, non-empty and not "cancelled": no reserved_quantity changes, no row is appended
C6_NoOpForOtherStatus ==
    (last.op = "handle_order_cancelled" /\ last.status \in Statuses \ {"cancelled"})
        => Unchanged

C6_Witness ==
    /\ last.op = "handle_order_cancelled"
    /\ last.status = "shipped"
    /\ last.order \in Orders
    /\ HadReservation(last.order)
    /\ last.outcome = "returned"

\* C7: release_inventory for an order number that has no "reserve" row changes no
\* reserved_quantity, appends no row and returns True
C7_ReleaseWithoutReservation ==
    (last.op = "release_inventory" /\ ~HadReservation(last.order))
        => (Unchanged /\ last.ret = TRUE)

C7_Witness ==
    /\ last.op = "release_inventory"
    /\ ~HadReservation(last.order)
    /\ \E o \in Orders : HadReservation(o)

\* the lines of the latest reserve call that have a SKU and found sufficient stock
ReservableLines ==
    SelectSeq([k \in 1..Len(last.items) |-> k],
              LAMBDA k : /\ last.items[k].sku # NoSku
                         /\ WasSufficient(last.items[k].sku, last.items[k].quantity))

\* C8: reserve_inventory books every line that has a SKU and sufficient stock on exactly
\* one sufficient row of that SKU, with one "reserve" row tagged with the order number,
\* and changes nothing else
C8_ReserveEachSufficientLine ==
    last.op = "reserve_inventory" =>
        /\ Len(NewTxns) = Len(ReservableLines)
        /\ \A j \in 1..Len(NewTxns) :
            LET line == last.items[ReservableLines[j]]
                t == NewTxns[j]
            IN  /\ t.type = "reserve"
                /\ t.order = last.order
                /\ t.quantity = line.quantity
                /\ RecSku[t.item] = line.sku
                /\ last.pre[t.item].quantity - last.pre[t.item].reserved_quantity
                       >= line.quantity
        /\ \A r \in Recs :
            /\ inv[r].quantity = last.pre[r].quantity
            /\ inv[r].reserved_quantity =
                   last.pre[r].reserved_quantity + QuantityOn(NewTxns, r)

C8_Witness ==
    /\ last.op = "reserve_inventory"
    /\ Len(last.items) = 2
    /\ Len(ReservableLines) = 1
    /\ Len(NewTxns) = 1
    /\ NewTxns[1].quantity = MaxQty
    /\ \E r \in Recs : inv[r].reserved_quantity > last.pre[r].reserved_quantity

\* the lines of the latest order.created payload with this SKU and quantity
LinesOf(sku, q) ==
    {k \in 1..Len(last.items) : last.items[k].sku = sku /\ last.items[k].quantity = q}

NewTxnsOf(sku, q) ==
    {j \in 1..Len(NewTxns) : RecSku[NewTxns[j].item] = sku /\ NewTxns[j].quantity = q}

HasInsufficientLine ==
    \E k \in 1..Len(last.items) :
        /\ last.items[k].sku # NoSku
        /\ ~WasSufficient(last.items[k].sku, last.items[k].quantity)

\* C9: when an order.created line asks for more than any row of its SKU has available,
\* nothing is reserved and no row is written for that line, the order's other lines
\* are still reserved, and the handler returns without raising
C9_InsufficientLineSkipped ==
    (last.op = "handle_order_created" /\ last.order \in Orders /\ HasInsufficientLine) =>
        /\ last.outcome = "returned"
        /\ \A sku \in Skus, q \in Quantities :
            Cardinality(NewTxnsOf(sku, q)) =
                IF WasSufficient(sku, q) THEN Cardinality(LinesOf(sku, q)) ELSE 0
        /\ \A r \in Recs :
            inv[r].reserved_quantity =
                last.pre[r].reserved_quantity + QuantityOn(NewTxns, r)

C9_Witness ==
    /\ last.op = "handle_order_created"
    /\ HasInsufficientLine
    /\ last.outcome = "returned"
    /\ Len(last.items) = 2
    /\ Len(NewTxns) = 1

\* every queue is empty and no handler is suspended
Quiescent == (\A c \in Consumers : queue[c] = <<>>) /\ tasks = {}

\* the only order of the run is n
OnlyOrder(n) == \A m \in Orders \ {n} : orders[m].status = "none"

\* the lines of an order that some row could serve from the initial stock
StockedLines(items) ==
    {k \in 1..Len(items) :
        \E r \in Recs : RecSku[r] = items[k].sku /\ InitialStock[r] >= items[k].quantity}

\* every stocked line of order n is booked once: one "reserve" row, and the SKU's
\* reserved_quantity grown by the line's quantity
ReservedOnce(n) ==
    \A k \in StockedLines(orders[n].items) :
        LET line == orders[n].items[k]
            rows == {i \in 1..Len(txns) : /\ txns[i].order = n
                                          /\ txns[i].type = "reserve"
                                          /\ RecSku[txns[i].item] = line.sku}
        IN  /\ Cardinality(rows) = 1
            /\ \A i \in rows : /\ txns[i].quantity = line.quantity
                               /\ inv[txns[i].item].reserved_quantity = line.quantity

\* C1 as claimed: a delivery whose handler raised is not acknowledged
C1_RaisedNotAcknowledged ==
    \A d \in settled : d.outcome = "raised" => d.settle # "ack"

\* C2 as claimed: once order.status_changed with new_status "cancelled" is published for
\* an order that held a reservation, and everything in flight has been consumed, the
\* order's reservations are released: one "release" row each, reserved_quantity back to 0
C2_CancelReleases ==
    \A e \in sent :
        (/\ e.key = OrderStatusChanged
         /\ e.new_status = "cancelled"
         /\ e.reserved # <<>>
         /\ OnlyOrder(e.order_number)
         /\ Quiescent)
        => /\ Len(SelectSeq(txns, LAMBDA t : t.order = e.order_number /\ t.type = "release"))
                = Len(e.reserved)
           /\ \A r \in Recs : inv[r].reserved_quantity = 0

\* C3 as claimed: once an order is created through the API (201) and everything in flight
\* has been consumed, its stocked lines are reserved, a shipment with its order_number
\* exists and an order_confirmation notification for the customer exists
C3_OrderSideEffects ==
    \A n \in Orders :
        (/\ orders[n].response = "201"
         /\ orders[n].status = "pending"
         /\ OnlyOrder(n)
         /\ Quiescent)
        => /\ ReservedOnce(n)
           /\ ShipmentExists(n)
           /\ \E i \in 1..Len(notifs) : /\ notifs[i].template = "order_confirmation"
                                        /\ notifs[i].order_number = n
                                        /\ notifs[i].recipient = CustomerEmail

InvocationsDone(order) ==
    {d \in settled : /\ d.consumer = "tracking"
                     /\ d.handler = "process_order_created"
                     /\ d.order = order}

\* C5 as claimed: after two or more invocations of the tracking handler with the same
\* order_number have ended, in any interleaving, exactly one shipment has that order_number
C5_ExactlyOneShipment ==
    \A o \in Orders :
        (Cardinality(InvocationsDone(o)) >= 2 /\ \A t \in tasks : t.order # o)
            => Cardinality(ShipmentsOf(o)) = 1

Dots(text) == {i \in 1..Len(text) : text[i] = "."}

DotAt(text, n) ==
    IF n = 0 THEN 0
    ELSE IF n > Cardinality(Dots(text)) THEN Len(text) + 1
    ELSE CHOOSE i \in Dots(text) : Cardinality({j \in Dots(text) : j < i}) = n - 1

SegmentCount(text) == Cardinality(Dots(text)) + 1

Segment(text, n) == SubSeq(text, DotAt(text, n - 1) + 1, DotAt(text, n) - 1)

\* C11: _matches_pattern(k, p) is true exactly when p is "#", or k and p have the same
\* number of dot-separated segments and every segment of p other than "*" equals the
\* segment of k at its place, character for character
C11_MatchesIff ==
    last.op = "_matches_pattern" =>
        (last.ret <=>
            \/ last.pattern = <<"#">>
            \/ /\ SegmentCount(last.routing_key) = SegmentCount(last.pattern)
               /\ \A n \in 1..SegmentCount(last.pattern) :
                    \/ Segment(last.pattern, n) = <<"*">>
                    \/ Segment(last.pattern, n) = Segment(last.routing_key, n))

\* a two-segment key matched by a pattern with a wildcard segment
C11_Witness ==
    /\ last.op = "_matches_pattern"
    /\ last.routing_key = <<"a", ".", "A">>
    /\ last.pattern = <<"a", ".", "*">>
    /\ last.ret = TRUE
    /\ ~_matches_pattern(last.routing_key, <<"A", ".", "*">>)
    /\ ~_matches_pattern(last.routing_key, <<"a">>)

\* C12 as claimed: an empty routing key matches no pattern
C12_EmptyKeyNeverMatches ==
    (last.op = "_matches_pattern" /\ last.routing_key = <<>>) => last.ret = FALSE

\* a payload json can carry unchanged, without the reserved keys
PlainPayload(message) ==
    /\ DOMAIN message \cap {"_timestamp", "_routing_key"} = {}
    /\ \A f \in DOMAIN message : message[f].t # "tuple"

\* C13 as claimed: for a payload without the reserved keys, the handler is called with
\* the published routing key and with a payload equal to the published one, the two
\* metadata fields removed
C13_RoundTrip ==
    (last.op = "handler" /\ PlainPayload(last.message)) =>
        /\ last.dispatched = last.routing_key
        /\ last.argument = last.message

\* the delivery of a well-formed order.created message without _routing_key to c
BareDelivery(c) ==
    /\ queue[c] # <<>>
    /\ queue'[c] = Tail(queue[c])
    /\ Head(queue[c]).json
    /\ Head(queue[c]).rk = NoKey
    /\ Head(queue[c]).key = OrderCreated

\* C14 as claimed: every consumer hands an order.created delivery whose body has no
\* _routing_key to its order.created handler
C14_TransportKeyFallback ==
    [][\A c \in Consumers :
          BareDelivery(c) =>
              \/ \E d \in settled' \ settled : d.consumer = c /\ d.handler # None
              \/ tasks' # tasks]_vars

\* C15 as claimed: publish on a publisher that was never connected raises NotConnected
\* and sends nothing, whatever the publisher's class
C15_PublishBeforeConnect ==
    (last.op = "publish" /\ last.pre.exchange = "none") =>
        (last.raised = "NotConnected" /\ ~last.sent)

\* C16 as claimed: a publish call made after close() on a connected publisher fails
\* with an error and sends nothing
C16_PublishAfterClose ==
    (last.op = "publish" /\ last.pre.exchange = "closed" /\ last.pre.pc = "idle") =>
        (last.raised # None /\ ~last.sent)

\* C17 as claimed: outside a running connect() a publisher is either connected, with an
\* open connection, channel and exchange, or holds no open connection or channel at all
C17_NoPartialConnection ==
    pub.pc = "idle" =>
        \/ pub.connection = "open" /\ pub.channel = "open" /\ pub.exchange = "open"
        \/ pub.connection # "open" /\ pub.channel # "open" /\ pub.exchange # "open"

\* C18: at every moment at most 10 messages are delivered to the consumer and not yet
\* acknowledged
C18_PrefetchBound == con.unacked <= 10

\* ten deliveries are unacknowledged and further messages wait in the queue
C18_Witness == con.unacked = 10 /\ con.ready >= 2 /\ con.connection = "open"

\* C19: closing the consumer while deliveries are unacknowledged puts each of them back
\* in the queue and acknowledges none; no message is ever lost
C19_RequeuedOnClose ==
    [][/\ (con.connection = "open" /\ con'.connection = "closed") =>
            /\ con'.ready = con.ready + con.unacked
            /\ con'.acked = con.acked
            /\ con'.unacked = 0
       /\ con'.ready + con'.unacked + con'.acked = con'.arrived]_vars

\* messages were put back by a shutdown, and after a restart every message of the run
\* has been delivered and acknowledged
C19_Witness ==
    /\ con.requeued
    /\ con.connection = "open"
    /\ con.arrived >= 2
    /\ con.acked = con.arrived

\* the latest register_handler call named a pattern that had a handler
WasRegistered ==
    \E i \in 1..Len(last.pre.handlers) : last.pre.handlers[i].pattern = last.pattern

\* what a first registration of the pattern writes to the log
FirstRegistrationLog ==
    register_handler(NewConsumer, last.pattern, last.handler).log[1]

\* C20 as claimed: register_handler for a pattern that already has a handler either
\* leaves the registry as it was, or writes a log entry that differs from the entry of
\* a first registration
C20_NoSilentReplacement ==
    (last.op = "register_handler" /\ WasRegistered) =>
        \/ con.handlers = last.pre.handlers
        \/ /\ Len(con.log) > Len(last.pre.log)
           /\ con.log[Len(con.log)] # FirstRegistrationLog

\* C21 as claimed: once a shipment.created event is published and everything in flight
\* has been consumed with no handler raising, a shipment_created notification with the
\* event's order_number is stored
C21_ShipmentNotice ==
    \A e \in sent :
        (/\ e.key = ShipmentCreated
         /\ Quiescent
         /\ \A d \in settled : d.outcome # "raised")
        => \E i \in 1..Len(notifs) : /\ notifs[i].template = "shipment_created"
                                     /\ notifs[i].order_number = e.order_number

\* C22 as claimed: once a tracking event is added and its event is published, and
\* everything in flight has been consumed with no handler raising, a
\* shipment_tracking_update notification with the event's order_number is stored
C22_TrackingUpdateNotice ==
    \A e \in sent :
        (/\ e.key = TrackingEventAdded
         /\ events # {}
         /\ Quiescent
         /\ \A d \in settled : d.outcome # "raised")
        => \E i \in 1..Len(notifs) : /\ notifs[i].template = "shipment_tracking_update"
                                     /\ notifs[i].order_number = e.order_number

\* the latest delivery to the notification consumer found no template name for its
\* routing key, no template row, or no recipient in the payload
SoftFailure ==
    /\ last.op = "_process_message"
    /\ \/ last.routing_key \notin DOMAIN TemplateMapping
       \/ /\ last.dbOk
          /\ \/ TemplateMapping[last.routing_key] \notin last.templates
             \/ ~Truthy(last.customer_email) /\ ~Truthy(last.recipient)

\* C23: a delivery that finds no template mapping, no template row or no recipient ends
\* without raising, stores no notification, and its message is acknowledged and in the
\* queue no more
C23_SoftFailureAcked ==
    SoftFailure =>
        /\ notifs = last.pre
        /\ \E d \in settled : /\ d.consumer = "notification"
                              /\ d.id = last.id
                              /\ d.outcome \in {"returned", "no_handler"}
                              /\ d.settle = "ack"
        /\ \A d \in settled : (d.consumer = "notification" /\ d.id = last.id)
                                => d.settle = "ack"
        /\ \A i \in 1..Len(queue["notification"]) : queue["notification"][i].id # last.id

\* a mapped event whose template is stored and whose payload names no recipient was
\* acknowledged with nothing stored
C23_Witness ==
    /\ SoftFailure
    /\ last.routing_key = ShipmentCreated
    /\ last.templates = Templates
    /\ last.customer_email = "" /\ last.recipient = None
    /\ notifs = <<>>
    /\ \E d \in settled : d.id = last.id /\ d.handler = "create_from_event"
                          /\ d.settle = "ack"

\* C24 as claimed: a notification row is stored with status "pending"; its status
\* changes only from "pending", to "sent" or to "failed"; sent_at is set only on a row
\* whose status is "sent"; and when send_notification returns, its row is not "pending"
C24_StatusLifecycle ==
    [][/\ \A i \in 1..Len(notifs') :
            /\ i > Len(notifs) => notifs'[i].status = "pending"
            /\ (i <= Len(notifs) /\ notifs'[i].status # notifs[i].status) =>
                    /\ notifs[i].status = "pending"
                    /\ notifs'[i].status \in {"sent", "failed"}
            /\ notifs'[i].sent_at => notifs'[i].status = "sent"
       /\ (snd.pc # "idle" /\ snd'.pc = "idle" /\ last'.ended = "returned") =>
            notifs'[snd.row].status # "pending"]_vars

\* the table held, before the latest call, exactly the rows one delivery of the same
\* order.created event writes
CreatedOnceBefore ==
    LET its == items_to_reserve(last.items)
    IN  /\ last.ntx > 0
        /\ \E pick \in Picks(its) :
              /\ \A k \in 1..Len(its) : pick[k] # NoRow => RecSku[pick[k]] = its[k].sku
              /\ SubSeq(txns, 1, last.ntx) = ReserveTxns(last.order, its, pick, Len(its))

\* C25 as claimed: a second delivery of an order.created event whose first delivery
\* reserved stock changes no reserved_quantity and adds no "reserve" row
C25_CreatedIdempotent ==
    (last.op = "handle_order_created" /\ last.order \in Orders /\ CreatedOnceBefore)
        => Unchanged

\* the table held, before the latest call, exactly the order's "reserve" rows followed
\* by the "release" rows one delivery of its cancellation writes
CancelledOnceBefore ==
    LET before == SubSeq(txns, 1, last.ntx)
        res == Reservations(before, last.order)
    IN  /\ res # <<>>
        /\ before = res \o ReleaseTxns(res)

\* C26 as claimed: a second delivery of an order's cancellation event changes no
\* reserved_quantity and adds no row: each reservation is released once
C26_CancelledIdempotent ==
    (/\ last.op = "handle_order_cancelled"
     /\ last.order \in Orders
     /\ ~IsNotCancellation(last.status)
     /\ CancelledOnceBefore)
        => (Unchanged /\ \A r \in Recs : inv[r].reserved_quantity = 0)

RECURSIVE SumQuantity(_)
SumQuantity(seq) == IF seq = <<>> THEN 0 ELSE Head(seq).quantity + SumQuantity(Tail(seq))

\* the units reserved for an order and not released
ReservedFor(order) ==
    SumQuantity(SelectSeq(txns, LAMBDA t : t.order = order /\ t.type = "reserve"))
        - SumQuantity(SelectSeq(txns, LAMBDA t : t.order = order /\ t.type = "release"))

\* the deliveries of an order's events the inventory consumer has handled
HandledFor(order, handler) ==
    {d \in settled : d.consumer = "inventory" /\ d.order = order /\ d.handler = handler}

\* C28 as claimed: once the inventory consumer has handled an order's order.created
\* event and its cancellation event, one delivery each and in either order, no unit
\* is reserved for the order
C28_OrderIndependent ==
    \A o \in Orders :
        (/\ Cardinality(HandledFor(o, "handle_order_created")) = 1
         /\ Cardinality(HandledFor(o, "handle_order_cancelled")) = 1)
        => ReservedFor(o) = 0

\* the units the table's rows book on inventory row r
BookedOn(r) ==
    SumQuantity(SelectSeq(txns, LAMBDA t : t.item = r /\ t.type = "reserve"))
        - SumQuantity(SelectSeq(txns, LAMBDA t : t.item = r /\ t.type = "release"))

\* C27: a handler invocation whose reserve_inventory or release_inventory raised
\* part-way changed no reserved_quantity and added no row; and in every committed
\* state each row's reserved_quantity is what the table's rows book on it
C27_AtomicInvocation ==
    /\ last.outcome = "raised" => Unchanged
    /\ \A r \in Recs : inv[r].reserved_quantity = BookedOn(r)

\* a delivery raised at its second line, after a first line that found stock, and a
\* release raised after its first reservation
C27_Witness ==
    /\ last.outcome = "raised"
    /\ last.failed_at = 2
    /\ \/ /\ last.op = "handle_order_created"
          /\ Len(last.items) = 2
          /\ WasSufficient(last.items[1].sku, last.items[1].quantity)
       \/ /\ last.op = "handle_order_cancelled"
          /\ HadReservation(last.order)
    /\ \E r \in Recs : inv[r].reserved_quantity > 0

\* C29 as claimed: every step of the order service that changes an order's status to
\* "cancelled" sends an order.status_changed event with the order's number and
\* new_status "cancelled"
C29_CancelPublishes ==
    [][\A n \in Orders :
          (orders[n].status # "cancelled" /\ orders'[n].status = "cancelled") =>
              /\ nmsg' = nmsg + 1
              /\ \E e \in sent' : /\ e.key = OrderStatusChanged
                                  /\ e.order_number = n
                                  /\ e.new_status = "cancelled"]_vars

\* C30 as claimed: for every order in the orders table, once the request that stored
\* it has completed, an order.created event with its number has been sent
C30_CreatedPublished ==
    \A n \in Orders :
        orders[n].status # "none" =>
            \E e \in sent : e.key = OrderCreated /\ e.order_number = n

\* C31 as claimed: once the handler invocation that stored a shipment has ended, a
\* shipment.created event for that shipment's order has been sent
C31_ShipmentPublished ==
    \A sh \in shipments :
        (\A t \in tasks : t.tracking_number # sh.tracking_number)
            => \E e \in sent : /\ e.key = ShipmentCreated
                               /\ e.order_number = sh.order_number

\* C32 as claimed: shipments created for different orders get different tracking
\* numbers, also within one clock second, so that every invocation of the tracking
\* handler for an order ends with a shipment stored for that order
C32_UniqueIdentifiers ==
    /\ \A d \in settled :
          (d.consumer = "tracking" /\ d.handler = "process_order_created"
                /\ d.order \in Orders)
            => ShipmentExists(d.order)
    /\ \A a \in shipments, b \in shipments :
          a.order_number # b.order_number => a.tracking_number # b.tracking_number

\* ------------------------------------------------- consumer start routines
\* MessageConsumer.start_consuming, OrderEventConsumer.start, and the notification
\* service's start_consumer
StartRoutines == {"start_consuming", "start", "start_consumer"}

\* the routines that end in "while running: await asyncio.sleep(1)"
KeepsRunning(who) == who \in {"start", "start_consumer"}

\* the routine is called. start_consuming raises without a queue; start and
\* start_consumer (through get_consumer) connect first, then set running
StartCall(who) ==
    /\ run.pc = "idle"
    /\ IF who = "start_consuming" /\ con.connection # "open"
       THEN /\ run' = [who |-> who, pc |-> "raised", running |-> FALSE, laps |-> 0]
            /\ UNCHANGED con
       ELSE /\ run' = [who |-> who, pc |-> "consume", running |-> KeepsRunning(who),
                        laps |-> 0]
            /\ con' = [con EXCEPT !.connection = "open",
                                   !.orphans = IF con.connection = "open" THEN @ ELSE 0]
    /\ UNCHANGED <<gw, gp, pub, events, snd, inv, txns, last, calls, now, orderVars, brokerVars,
                   trackingVars, notifs>>

\* await queue.consume(callback) returns: the callback is registered with the broker
ConsumeDone ==
    /\ run.pc = "consume"
    /\ run' = [run EXCEPT !.pc = IF KeepsRunning(run.who) /\ run.running
                                 THEN "sleep" ELSE "returned"]
    /\ UNCHANGED <<gw, gp, objVars, events, snd, inv, txns, last, calls, now, orderVars, brokerVars,
                   trackingVars, notifs>>

\* await asyncio.sleep(1) returns and the loop tests running again; run.laps is the
\* parity of the sleeps done
SleepDone ==
    /\ run.pc = "sleep"
    /\ run' = [run EXCEPT !.pc = IF run.running THEN "sleep" ELSE "returned",
                           !.laps = (@ + 1) % 2]
    /\ UNCHANGED <<gw, gp, objVars, events, snd, inv, txns, last, calls, now, orderVars, brokerVars,
                   trackingVars, notifs>>

\* shutdown: stop() clears running and closes the connection
StopCall ==
    /\ run.pc \in {"consume", "sleep", "returned"}
    /\ con.connection = "open"
    /\ run' = [run EXCEPT !.running = FALSE]
    /\ con' = [con EXCEPT !.connection = "closed",
                           !.ready = @ + Requeued(con.unacked),
                           !.unacked = 0,
                           !.orphans = con.unacked,
                           !.requeued = @ \/ Requeued(con.unacked) > 0]
    /\ UNCHANGED <<gw, gp, pub, events, snd, inv, txns, last, calls, now, orderVars, brokerVars,
                   trackingVars, notifs>>

\* the broker delivers to the registered callback, whatever the start routine is doing
CallbackDeliver ==
    /\ run.pc \in {"sleep", "returned"}
    /\ Deliver

NextStart ==
    \/ ConsumerStart
    \/ \E who \in StartRoutines : StartCall(who)
    \/ ConsumeDone
    \/ SleepDone
    \/ StopCall
    \/ Arrive
    \/ CallbackDeliver
    \/ ProcessDone
    \/ OrphanDone

SpecStart == InitInv /\ [][NextStart]_vars

\* the event loop runs every coroutine that is ready: a pending consume and a
\* finished sleep resume, a delivered message is processed. Shutdown is not promised.
SpecStartFair ==
    /\ SpecStart
    /\ WF_vars(ConsumeDone)
    /\ WF_vars(SleepDone)
    /\ WF_vars(CallbackDeliver)
    /\ WF_vars(ProcessDone)

\* C33 as claimed: a start routine that has begun to consume returns to its caller,
\* whether or not messages arrive and without a shutdown
C33_StartReturns == (run.pc = "consume") ~> (run.pc = "returned")

\* ------------------------------------------------- the shared dispatcher
\* routing keys a delivery can carry, as transport key and as body["_routing_key"]
DispatchKeys == {OrderCreated, OrderCancelled, ShipmentCreated}

\* the loop over self.handlers.items() with its break: the handler of the first
\* pattern, in the order of the dict, that matches; None when the loop runs out
find_handler(handlers, routing_key) ==
    LET hits == {i \in 1..Len(handlers) : matches_pattern(routing_key, handlers[i].pattern)}
    IN  IF hits = {} THEN None
        ELSE handlers[CHOOSE i \in hits : \A j \in hits : i <= j].handler

\* _process_message on a delivery with transport key "key" whose body is JSON or
\* not and carries _routing_key "rk" or none: the handlers awaited, in order, and
\* the log entry; leaving message.process() acknowledges, also after a handler raised
process_message(c, key, rk, json, handlerOk) ==
    LET routing_key == IF rk = NoKey THEN Unknown ELSE rk
        handler == IF json THEN find_handler(c.handlers, routing_key) ELSE None
    IN  [invoked |-> IF handler = None THEN <<>> ELSE <<handler>>,
         event |-> IF ~json THEN "message_processing_failed"
                   ELSE IF handler = None THEN "no_handler_found"
                   ELSE IF handlerOk THEN "message_processed"
                   ELSE "message_processing_failed",
         acked |-> TRUE]

\* the broker delivers a message to the consumer's callback
DispatchCall(key, rk, json, handlerOk) ==
    /\ LET r == process_message(con, key, rk, json, handlerOk)
       IN  last' = [op |-> "_process_message", key |-> key, rk |-> rk, json |-> json,
                    pre |-> con, invoked |-> r.invoked, event |-> r.event,
                    acked |-> r.acked]
    /\ UNCHANGED <<procVars, objVars, events, snd, inv, txns, calls, now, orderVars, brokerVars,
                   trackingVars, notifs>>

NextDispatch ==
    \/ \E rp \in Patterns, h \in HandlerNames : RegisterCall(rp, h)
    \/ \E key \in DispatchKeys, rk \in DispatchKeys \cup {NoKey}, json \in BOOLEAN,
          ok \in BOOLEAN : DispatchCall(key, rk, json, ok)

SpecDispatch == InitInv /\ [][NextDispatch]_vars

\* the registered patterns that match a routing key, as positions in registration order
MatchingAt(handlers, routing_key) ==
    {i \in 1..Len(handlers) : matches_pattern(routing_key, handlers[i].pattern)}

\* C34 as claimed: for a decodable delivery at most one handler is invoked, the one
\* of the first registered pattern matching the message's routing key; when no
\* pattern matches it, none is invoked and the message is acknowledged
C34_FirstRegisteredWins ==
    (last.op = "_process_message" /\ last.json)
        => LET hits == MatchingAt(last.pre.handlers, last.key)
           IN  /\ Len(last.invoked) <= 1
               /\ hits = {} => (last.invoked = <<>> /\ last.acked)
               /\ hits # {} =>
                     last.invoked =
                        <<last.pre.handlers[CHOOSE i \in hits : \A j \in hits : i <= j].handler>>

\* ------------------------------------------------- the stock ledger
\* reserve_inventory called again and again, for any order
LedgerReserve(order, items) ==
    /\ calls < MaxLedgerCalls
    /\ \E pick \in Picks(items) :
        /\ FirstRows(inv, items, pick)
        /\ LET r == reserve_inventory(inv, txns, order, items, pick)
           IN  /\ inv' = r.inv
               /\ txns' = r.txns
               /\ last' = Call("reserve_inventory", order, items, None, r.ret, "returned")
    /\ calls' = calls + 1
    /\ UNCHANGED sysVars

\* release_inventory called again and again, for any order
LedgerRelease(order) ==
    /\ calls < MaxLedgerCalls
    /\ LET r == release_inventory(inv, txns, order)
       IN  /\ inv' = r.inv
           /\ txns' = r.txns
           /\ last' = Call("release_inventory", order, <<>>, None, r.ret, "returned")
    /\ calls' = calls + 1
    /\ UNCHANGED sysVars

\* the item lists of the ledger's reserve calls: one line, or the same line twice
LedgerItems == {<<l>> : l \in Lines} \cup {<<l, l>> : l \in Lines}

NextLedger ==
    \/ \E o \in Orders, items \in LedgerItems : LedgerReserve(o, items)
    \/ \E o \in Orders : LedgerRelease(o)

SpecLedger == InitInv /\ [][NextLedger]_vars

\* the quantities of the rows of one type the table holds for inventory row r
TypeSum(r, type) ==
    SumQuantity(SelectSeq(txns, LAMBDA t : t.item = r /\ t.type = type))

\* C35: after any sequence of reserve_inventory and release_inventory calls, each
\* item's reserved_quantity is the sum of its "reserve" quantities minus the sum of
\* its "release" quantities
C35_ReservedIsLedgerBalance ==
    \A r \in Recs : inv[r].reserved_quantity = TypeSum(r, "reserve") - TypeSum(r, "release")

\* an order was released a second time: its reservation is subtracted again and an
\* item's reserved_quantity is below zero, with the rows to account for it
C35_Witness ==
    /\ last.op = "release_inventory"
    /\ \E r \in Recs : /\ inv[r].reserved_quantity < 0
                       /\ TypeSum(r, "release") > TypeSum(r, "reserve")
                       /\ TypeSum(r, "reserve") > 0

\* ------------------------------------------------- stock adjustments
Warehouses == {RecWarehouse[r] : r \in Recs}
QuantityChanges == (0 - MaxQty)..MaxQty

\* the row of a SKU in a warehouse, (warehouse_id, sku) being unique
RowOf(sku, warehouse_code) ==
    IF \E r \in Recs : RecSku[r] = sku /\ RecWarehouse[r] = warehouse_code
    THEN CHOOSE r \in Recs : RecSku[r] = sku /\ RecWarehouse[r] = warehouse_code
    ELSE NoRow

\* adjust_inventory: quantity += quantity_change, set to 0 when below; one
\* "adjust" or "reduce" row; reserved_quantity is neither read nor written
adjust_inventory(db, tx, sku, warehouse_code, quantity_change) ==
    LET r == RowOf(sku, warehouse_code)
    IN  IF r = NoRow
        THEN [inv |-> db, txns |-> tx, ret |-> FALSE]
        ELSE [inv  |-> [db EXCEPT ![r].quantity =
                           IF @ + quantity_change < 0 THEN 0 ELSE @ + quantity_change],
              txns |-> Append(tx, [item |-> r,
                                   type |-> IF quantity_change > 0 THEN "adjust" ELSE "reduce",
                                   quantity |-> IF quantity_change < 0 THEN 0 - quantity_change
                                                ELSE quantity_change,
                                   order |-> NoOrder]),
              ret  |-> TRUE]

\* POST /inventory/adjust
AdjustCall(sku, warehouse_code, quantity_change) ==
    /\ calls < MaxLedgerCalls
    /\ LET r == adjust_inventory(inv, txns, sku, warehouse_code, quantity_change)
       IN  /\ inv' = r.inv
           /\ txns' = r.txns
           /\ last' = [Call("adjust_inventory", NoOrder, <<>>, None, r.ret, "returned")
                         EXCEPT !.items = <<[sku |-> sku, quantity |-> quantity_change]>>]
    /\ calls' = calls + 1
    /\ UNCHANGED sysVars

NextStock ==
    \/ \E o \in Orders, items \in LedgerItems : LedgerReserve(o, items)
    \/ \E o \in Orders : LedgerRelease(o)
    \/ \E sku \in Skus, w \in Warehouses, q \in QuantityChanges : AdjustCall(sku, w, q)

SpecStock == InitInv /\ [][NextStock]_vars

\* C36 as claimed: after any sequence of reserve, release and adjust calls every
\* item has 0 <= reserved_quantity <= quantity
C36_ReservedWithinStock ==
    \A r \in Recs : /\ 0 <= inv[r].reserved_quantity
                    /\ inv[r].reserved_quantity <= inv[r].quantity

\* ------------------------------------------------- availability check
RECURSIVE SumAvailable(_, _)
\* sum(item.available_quantity for item in inventory_items)
SumAvailable(db, rows) ==
    IF rows = {} THEN 0
    ELSE LET r == CHOOSE x \in rows : TRUE
         IN  available_quantity(db[r]) + SumAvailable(db, rows \ {r})

\* check_availability: per line with a SKU, the available quantity summed over all
\* the SKU's rows against the required quantity
check_availability(db, items) ==
    LET checked == SelectSeq(items, LAMBDA l : l.sku # NoSku)
        details == [k \in 1..Len(checked) |->
                      LET total_available ==
                              SumAvailable(db, {r \in Recs : RecSku[r] = checked[k].sku})
                      IN  [sku |-> checked[k].sku,
                           required |-> checked[k].quantity,
                           available |-> total_available,
                           sufficient |-> total_available >= checked[k].quantity]]
    IN  [all_available |-> \A k \in 1..Len(details) : details[k].sufficient,
         details |-> details]

\* POST /inventory/check
CheckCall(items) ==
    /\ LET r == check_availability(inv, items)
       IN  last' = [op |-> "check_availability", items |-> items, pre |-> inv,
                    ret |-> r.all_available, details |-> r.details, outcome |-> "returned"]
    /\ UNCHANGED <<inv, txns, calls, sysVars>>

NextAvail ==
    \/ \E o \in Orders, items \in LedgerItems : LedgerReserve(o, items)
    \/ \E o \in Orders : LedgerRelease(o)
    \/ \E items \in LedgerItems : CheckCall(items)

SpecAvail == InitInv /\ [][NextAvail]_vars

\* reserve_inventory, run on the present state for one line, reserves it
WouldReserve(sku, quantity) == SufficientRows(inv, sku, quantity) # {}

\* C37 as claimed: every line check_availability reports as sufficient is one that
\* reserve_inventory, run on the same state for that SKU and quantity, reserves
C37_CheckAgreesWithReserve ==
    last.op = "check_availability"
        => \A k \in 1..Len(last.details) :
              last.details[k].sufficient
                  => WouldReserve(last.details[k].sku, last.details[k].required)

\* ------------------------------------------------- get_event_publisher
\* the services' publisher classes behind a module global
ServicePublishers == {"OrderEventPublisher", "TrackingEventPublisher"}

\* a caller reaches "if event_publisher is None": the first one creates the instance,
\* assigns the global and waits in connect(); any other gets the instance back at once
GetBegin(c) ==
    /\ gp.callers[c].pc = "idle"
    /\ IF gp.global = "none"
       THEN /\ pub' = [NewPublisher(pub.class) EXCEPT !.pc = "connect_robust"]
            /\ gp' = [gp EXCEPT !.global = "set", !.callers[c].pc = "connecting"]
            /\ UNCHANGED last
       ELSE /\ gp' = [gp EXCEPT !.callers[c] = [pc |-> "returned", got |-> pub.exchange]]
            /\ last' = [op |-> "get_event_publisher", caller |-> c, pre |-> pub,
                        raised |-> None, sent |-> FALSE]
            /\ UNCHANGED pub
    /\ UNCHANGED <<run, gw, con, events, snd, inv, txns, calls, now, orderVars, brokerVars,
                   trackingVars, notifs>>

\* an await inside the creating caller's connect() ends: the attribute is assigned,
\* or the exception is logged and raised through get_event_publisher, which leaves
\* the global as it is
GetConnect(c, ok) ==
    /\ gp.callers[c].pc = "connecting"
    /\ IF ~ok
       THEN /\ pub' = [pub EXCEPT !.pc = "idle"]
            /\ gp' = [gp EXCEPT !.callers[c].pc = "raised"]
            /\ last' = [op |-> "get_event_publisher", caller |-> c, pre |-> pub,
                        raised |-> "ConnectFailed", sent |-> FALSE]
       ELSE CASE pub.pc = "connect_robust" ->
                    /\ pub' = [pub EXCEPT !.connection = "open", !.pc = "channel"]
                    /\ UNCHANGED <<gp, last>>
              [] pub.pc = "channel" ->
                    /\ pub' = [pub EXCEPT !.channel = "open", !.pc = "declare_exchange"]
                    /\ UNCHANGED <<gp, last>>
              [] OTHER ->
                    /\ pub' = [pub EXCEPT !.exchange = "open", !.pc = "idle"]
                    /\ gp' = [gp EXCEPT !.callers[c] = [pc |-> "returned", got |-> "open"]]
                    /\ last' = [op |-> "get_event_publisher", caller |-> c, pre |-> pub,
                                raised |-> None, sent |-> FALSE]
    /\ UNCHANGED <<run, gw, con, events, snd, inv, txns, calls, now, orderVars, brokerVars,
                   trackingVars, notifs>>

\* the caller publishes its event through the instance it was given
GetPublish(c, publishOk) ==
    /\ gp.callers[c].pc = "returned"
    /\ LET r == publish(pub, publishOk)
       IN  /\ gp' = [gp EXCEPT !.callers[c].pc = IF r.sent THEN "published" ELSE "dropped"]
           /\ last' = [op |-> "_publish", caller |-> c, pre |-> pub,
                       raised |-> r.raised, sent |-> r.sent]
    /\ UNCHANGED <<run, gw, objVars, events, snd, inv, txns, calls, now, orderVars, brokerVars,
                   trackingVars, notifs>>

InitGetter ==
    /\ InitSys
    /\ con = NewConsumer
    /\ pub \in {NewPublisher(c) : c \in ServicePublishers}
    /\ inv = [r \in Recs |-> [quantity |-> InitialStock[r], reserved_quantity |-> 0]]
    /\ txns = <<>>
    /\ calls = 0
    /\ last = [op |-> None, caller |-> 0, pre |-> pub, raised |-> None, sent |-> FALSE]

NextGetter ==
    \/ \E c \in Callers : GetBegin(c)
    \/ \E c \in Callers, ok \in BOOLEAN : GetConnect(c, ok)
    \/ \E c \in Callers, ok \in BOOLEAN : GetPublish(c, ok)

SpecGetter == InitGetter /\ [][NextGetter]_vars

\* C38 as claimed: a publisher that get_event_publisher has returned is connected,
\* its exchange declared, under every interleaving of callers
C38_ReturnedConnected ==
    \A c \in Callers : gp.callers[c].pc = "returned" => gp.callers[c].got = "open"

\* ------------------------------------------------- the gateway's proxy
MAX_RETRIES == 3

Methods == {"GET", "POST", "DELETE"}

\* what one http_client.request can end in: a response with its status code, or an
\* exception
Responses == [kind : {"response"}, status : {200, 404, 500}]
Failures == [kind : {"TimeoutException", "ConnectError", "Exception"}, status : {0}]

\* an except clause that retries whatever was raised
RetryableAny(kind) == kind # "response"

\* the except clauses that go on to the next attempt
Retryable(kind) == kind \in {"TimeoutException", "ConnectError"}

\* proxy_request is entered: request.body() for the methods with a body, then the
\* first iteration of "for attempt in range(MAX_RETRIES)"
ProxyBegin(method) ==
    /\ gw.pc \in {"idle", "returned", "raised"}
    /\ gw.served < MaxProxied
    /\ gw' = [pc |-> IF 0 < MAX_RETRIES THEN "request" ELSE "raised",
              attempt |-> 0, log |-> <<>>,
              result |-> IF 0 < MAX_RETRIES THEN 0 ELSE 503,
              served |-> gw.served + 1, method |-> method,
              body |-> method \in {"POST", "PUT", "PATCH"}]
    /\ UNCHANGED <<run, gp, objVars, events, snd, invVars, now, orderVars, brokerVars,
                   trackingVars, notifs>>

\* the awaited http_client.request of this attempt ends in outcome
ProxyAttempt(outcome) ==
    /\ gw.pc = "request"
    /\ gw' = IF outcome.kind = "response"
             THEN [gw EXCEPT !.log = Append(@, outcome), !.pc = "returned",
                             !.result = outcome.status]
             ELSE IF Retryable(outcome.kind) /\ gw.attempt < MAX_RETRIES - 1
             THEN [gw EXCEPT !.log = Append(@, outcome), !.pc = "sleep"]
             ELSE [gw EXCEPT !.log = Append(@, outcome), !.pc = "raised", !.result = 503]
    /\ UNCHANGED <<run, gp, objVars, events, snd, invVars, now, orderVars, brokerVars,
                   trackingVars, notifs>>

\* asyncio.sleep(RETRY_BACKOFF * (attempt + 1)) is over: continue with the next attempt
ProxyWake ==
    /\ gw.pc = "sleep"
    /\ gw' = [gw EXCEPT !.attempt = @ + 1, !.pc = "request"]
    /\ UNCHANGED <<run, gp, objVars, events, snd, invVars, now, orderVars, brokerVars,
                   trackingVars, notifs>>

NextProxy ==
    \/ \E m \in Methods : ProxyBegin(m)
    \/ \E o \in Responses \cup Failures : ProxyAttempt(o)
    \/ ProxyWake

SpecProxy == InitInv /\ [][NextProxy]_vars

\* C39: for one incoming request the backend is contacted at most MAX_RETRIES times;
\* every contact but the last ended in a timeout or a connection error; a response
\* ends the call at once and is what the call returns; any other exception ends it
\* at once; and the call raises HTTP 503 exactly when it ends without a response
C39_BoundedRetry ==
    LET n == Len(gw.log)
    IN  /\ n <= MAX_RETRIES
        /\ \A i \in 1..(n - 1) : gw.log[i].kind \in {"TimeoutException", "ConnectError"}
        /\ gw.pc \in {"request", "sleep"} =>
              /\ \A i \in 1..n : gw.log[i].kind \in {"TimeoutException", "ConnectError"}
              /\ n < MAX_RETRIES
        /\ gw.pc = "returned" =>
              /\ n >= 1
              /\ gw.log[n].kind = "response"
              /\ gw.result = gw.log[n].status
        /\ gw.pc = "raised" =>
              /\ gw.result = 503
              /\ \A i \in 1..n : gw.log[i].kind # "response"
              /\ n = MAX_RETRIES \/ (n >= 1 /\ gw.log[n].kind = "Exception")

\* the third attempt obtained a response after a timeout and a connection error
C39_Witness ==
    /\ gw.pc = "returned"
    /\ Len(gw.log) = MAX_RETRIES
    /\ \E i \in 1..Len(gw.log) : gw.log[i].kind = "TimeoutException"
    /\ \E i \in 1..Len(gw.log) : gw.log[i].kind = "ConnectError"

====
